---------------------------- MODULE Spec2Model ----------------------------
(***************************************************************************)
(* Admin Operations Orchestrator of PlantSwipe (src/admin_api/app.py):     *)
(* the authentication gate, the HTTP handlers that spawn processes, the    *)
(* schema-sync pipeline and the maintenance record.                        *)
(*                                                                         *)
(* Strings.  A Python str is modelled as a sequence of pieces.  A piece is *)
(* a TLA+ string: data a caller or the configuration controls is spelled   *)
(* one character per piece (<<"s","3">> is "s3"); fixed text of the source *)
(* is one piece per literal (<<"psql">>).  The piece "U+00E9" stands for   *)
(* the single non-ASCII character e-acute, the piece "SP" for a space and  *)
(* "LF" for a newline.                                                     *)
(***************************************************************************)
EXTENDS Integers, Sequences, FiniteSets, TLC

VARIABLES
    APP_SECRET,          \* app.py:262  keyed-hash secret (a str)
    ADMIN_STATIC_TOKEN,  \* app.py:263  static token (a str, "" = none)
    ALLOWED_SERVICES_RAW, \* app.py:265 ADMIN_ALLOWED_SERVICES, split at ","
    ALLOWED_SERVICES,    \* app.py:268  set of service names
    DEFAULT_SERVICE,     \* app.py:266
    environ,             \* os.environ: the entries the handlers read
    fs,                  \* the files the handlers test for or list
    maint,               \* MAINTENANCE_MODE_FILE: whether it exists, its text
    calls,               \* maintenance calls running side by side
    sentry,              \* the last decision of _sentry_before_send
    ret,                 \* the helper called on its own last, with its result
    now,                 \* time.time() * 1000
    req,                 \* the request being handled (or the last one)
    auth,                \* outcome of _verify_request for req
    resp,                \* the response sent for req, or Pending
    procs,               \* the subprocess.run / Popen calls made for req
    sync                 \* local state of sync_schema for req

vars == <<APP_SECRET, ADMIN_STATIC_TOKEN, ALLOWED_SERVICES_RAW,
          ALLOWED_SERVICES, DEFAULT_SERVICE, environ, fs, maint, calls, sentry, ret, now, req, auth, resp,
          procs, sync>>

config == <<APP_SECRET, ADMIN_STATIC_TOKEN, ALLOWED_SERVICES_RAW,
            ALLOWED_SERVICES, DEFAULT_SERVICE, environ, fs>>

-----------------------------------------------------------------------------
(* Bounds of the model. *)

\* longest request body, in bytes
MaxBodyLen == 2
\* longest branch parameter, in characters
MaxBranchLen == 3
\* most sync units in the sync_parts directory
MaxUnits == 3

-----------------------------------------------------------------------------
(* Strings. *)

SeqsUpTo(S, n) == UNION {[1..k -> S] : k \in 0..n}

Range(s) == {s[i] : i \in 1..Len(s)}

\* Python: p in s
Contains(s, p) ==
    \E i \in 0..(Len(s) - Len(p)) : SubSeq(s, i + 1, i + Len(p)) = p

\* Python: s.startswith(p)
StartsWith(s, p) == Len(s) >= Len(p) /\ SubSeq(s, 1, Len(p)) = p

\* Python: s.endswith(p)
EndsWith(s, p) ==
    Len(s) >= Len(p) /\ SubSeq(s, Len(s) - Len(p) + 1, Len(s)) = p

NonAsciiChar == "U+00E9"

IsAscii(s) == NonAsciiChar \notin Range(s)

\* str.strip(): the whitespace at both ends removed
IsSpace(c) == c \in {"SP", "LF"}

RECURSIVE lstrip(_)
lstrip(s) == IF s # <<>> /\ IsSpace(Head(s)) THEN lstrip(Tail(s)) ELSE s

RECURSIVE rstrip(_)
rstrip(s) ==
    IF s # <<>> /\ IsSpace(s[Len(s)]) THEN rstrip(SubSeq(s, 1, Len(s) - 1))
    ELSE s

strip(s) == rstrip(lstrip(s))

-----------------------------------------------------------------------------
(* The authentication gate: _verify_request, app.py:328-343. *)

Unset == <<"<unset>">>

\* app.py:206-210
get_env_var(value, default) == IF value = Unset THEN default ELSE value

\* "change-me", the default of app.py:262
CHANGE_ME == <<"c">>

HexDigits ==
    <<"0", "1", "2", "3", "4", "5", "6", "7",
      "8", "9", "a", "b", "c", "d", "e", "f">>

RECURSIVE ToHex(_, _)
\* n as w lowercase hexadecimal digits, most significant first
ToHex(n, w) ==
    IF w = 0 THEN <<>>
    ELSE Append(ToHex(n \div 16, w - 1), HexDigits[(n % 16) + 1])

ByteCode(c) == CASE c = "a" -> 1 [] c = "b" -> 2 [] c = "c" -> 3

RECURSIVE Absorb(_)
\* A keyed digest stands in for HMAC-SHA256: it reads every byte of the key
\* and of the message and is free of collisions on the inputs of the model
\* (bijective base-5 numeration of key, separator 4, message).
Absorb(m) ==
    IF m = <<>> THEN 0
    ELSE (IF Head(m) = "|" THEN 4 ELSE ByteCode(Head(m))) + 5 * Absorb(Tail(m))

\* hmac.new(key, body, hashlib.sha256).hexdigest(): fixed width, lowercase hex
hmac_hexdigest(key, body) == ToHex(Absorb(key \o <<"|">> \o body), 4)

\* hmac.compare_digest on two str: TypeError unless both are ASCII
compare_digest(a, b) ==
    IF ~IsAscii(a) \/ ~IsAscii(b) THEN "TypeError"
    ELSE IF a = b THEN "True" ELSE "False"

\* _verify_request: "Allow" = returns, "Deny" = abort(401),
\* "Error" = the TypeError of compare_digest escapes (Flask answers 500)
verify_request(provided_sig, static_token, body) ==
    IF provided_sig # <<>>
    THEN LET computed_sig == hmac_hexdigest(APP_SECRET, body)
             c == compare_digest(provided_sig, computed_sig)
         IN  CASE c = "True" -> "Allow"
               [] c = "False" -> "Deny"
               [] c = "TypeError" -> "Error"
    ELSE IF ADMIN_STATIC_TOKEN # <<>> /\ static_token # <<>>
         THEN LET c == compare_digest(static_token, ADMIN_STATIC_TOKEN)
              IN  CASE c = "True" -> "Allow"
                    [] c = "False" -> "Deny"
                    [] c = "TypeError" -> "Error"
         ELSE "Deny"

-----------------------------------------------------------------------------
(* Requests, responses and spawned processes. *)

\* MAINTENANCE_MODE_FILE does not exist
NoFile == [exists |-> FALSE, text |-> <<>>]
\* the handler has not answered yet
Pending == [status |-> 0, body |-> [pending |-> TRUE]]
NoInput == <<"<none>">>

\* os.environ.get(name) or ""
Env(name) == IF name \in DOMAIN environ THEN environ[name] ELSE <<>>

\* one subprocess.run / subprocess.Popen call: argument list, environment
\* handed to the child, text written to its stdin
Proc(argv, env, input) ==
    [argv |-> argv, env |-> env, input |-> input, end |-> [how |-> "unobserved"]]

\* how a call ended, where the caller looks at it: the Popen that raised, the
\* child that wrote lines and exited with code (reading its output raised
\* after them if broken), the run that returned res, the run that raised
SpawnFailed == [how |-> "oserror"]
Exited(lines, code, broken) ==
    [how |-> "exit", lines |-> lines, code |-> code, broken |-> broken]
ReturnedRes(res) == [how |-> "returned", res |-> res]
RaisedIn(what) == [how |-> "raised", what |-> what]
\* the wait for the child ran out of time; subprocess.run kills the child
\* before it raises TimeoutExpired, Popen.communicate leaves it running
TimedOut(killed) == [how |-> "timeout", killed |-> killed]
Ended(p, end) == [p EXCEPT !.end = end]

\* how the subprocess.run(..., timeout=...) that ends as out ended
RunEndOf(out) ==
    CASE out = "oserror" -> SpawnFailed
      [] out = "timeout" -> TimedOut(TRUE)
      [] out = "ok" -> Exited(<<>>, 0, FALSE)
      [] out = "fail" -> Exited(<<>>, 1, FALSE)

Cred(sig, token, body) == [sig |-> sig, token |-> token, body |-> body]

Request(endpoint, cred, arg, num) ==
    [endpoint |-> endpoint, sig |-> cred.sig, token |-> cred.token,
     body |-> cred.body, arg |-> arg, num |-> num]

\* jsonify(body), status
Json(status, body) == [status |-> status, body |-> body]

\* app.py:280-283 and 298-301: abort(401), and an exception that escapes
unauthorized_handler == Json(401, [ok |-> FALSE, error |-> "Unauthorized"])
internal_error_handler ==
    Json(500, [ok |-> FALSE, error |-> "Internal Server Error"])
bad_request_handler(description) ==
    Json(400, [ok |-> FALSE, error |-> "Bad Request", message |-> description])

\* the response of a request that does not pass _verify_request
Refused(a) == IF a = "Deny" THEN unauthorized_handler ELSE internal_error_handler

\* the credentials requests carry in the HTTP-surface specification: none,
\* the right and a wrong static token, the right signature, a wrong signature
\* next to the right token, a signature with a non-ASCII character
SampleBody == <<"a">>
CredSamples ==
    { Cred(<<>>, <<>>, SampleBody),
      Cred(<<>>, ADMIN_STATIC_TOKEN, SampleBody),
      Cred(<<>>, <<"x">>, SampleBody),
      Cred(hmac_hexdigest(APP_SECRET, SampleBody), <<>>, SampleBody),
      Cred(hmac_hexdigest(APP_SECRET, <<"b">>), ADMIN_STATIC_TOKEN, SampleBody),
      Cred(<<NonAsciiChar>>, ADMIN_STATIC_TOKEN, SampleBody) }

Verify(cred) == verify_request(cred.sig, cred.token, cred.body)

\* the handler that calls _verify_request() after its first subprocess.run
StopAfterSpawn(endpoint, cred, arg, num) ==
    /\ Verify(cred) # "Allow"
    /\ req' = Request(endpoint, cred, arg, num)
    /\ auth' = Verify(cred)
    /\ resp' = Refused(Verify(cred))
    /\ procs' = << Proc(<< <<"sudo">>, <<"systemctl">>, <<"reboot">> >>,
                        environ, NoInput) >>
    /\ UNCHANGED <<config, ret, calls, sentry, maint, now, sync>>

\* a request stopped by the gate: nothing but the response happens
Stop(endpoint, cred, arg, num) ==
    /\ Verify(cred) # "Allow"
    /\ req' = Request(endpoint, cred, arg, num)
    /\ auth' = Verify(cred)
    /\ resp' = Refused(Verify(cred))
    /\ procs' = <<>>
    /\ UNCHANGED <<config, ret, calls, sentry, maint, now, sync>>

\* a request let through, handled to its response in one step
Done(endpoint, cred, arg, num, response, spawned) ==
    /\ Verify(cred) = "Allow"
    /\ req' = Request(endpoint, cred, arg, num)
    /\ auth' = "Allow"
    /\ resp' = response
    /\ procs' = spawned
    /\ UNCHANGED <<config, ret, calls, sentry, now, sync>>

\* before a request arrives and after its context is torn down
NoRequest == Request("", Cred(<<>>, <<>>, <<>>), <<>>, 0)
NoResponse == [status |-> 0, body |-> [none |-> TRUE]]

\* subprocess.run(...) that returned: exit code, whether "certificate" is in
\* stderr.lower(), what it wrote to stdout and to stderr (a word a piece),
\* the attempt of the ladder that made it, and the lines with WARNING: or
\* NOTICE: in its output
Res(returncode, cert, out, err, by) ==
    [returncode |-> returncode, cert |-> cert, out |-> out, err |-> err,
     by |-> by, notices |-> 0]

NoRes == Res(0 - 1, FALSE, <<>>, <<>>, "none")

\* the locals of sync_schema between its steps; idle outside the handler
SyncIdle ==
    [pc |-> "idle", files |-> <<>>, db_url |-> <<>>, i |-> 0, ca |-> 0,
     res |-> NoRes, tmp |-> FALSE, results |-> <<>>,
     has_any_error |-> FALSE, failed_file |-> <<>>, all_warnings |-> <<>>]

\* hint without exc_info: there is no error to look at
NoError == <<"<none>">>

\* no helper has been called on its own
NoReturn == [fn |-> "", arg |-> <<>>, value |-> FALSE]

\* the caller of the helper is done with its result
helper_returned ==
    /\ ret.fn # ""
    /\ ret' = NoReturn
    /\ UNCHANGED <<config, maint, calls, sentry, now, req, auth, resp, procs,
                   sync>>

\* _sentry_before_send is not running
NoDecision ==
    [msg |-> NoError, at |-> 0, active |-> FALSE, running |-> FALSE,
     suppressed |-> FALSE, sent |-> FALSE, value |-> <<>>, scrubbed |-> <<>>]

\* no request is being handled: handlers run one request at a time here
Idle == sync.pc = "idle" /\ req = NoRequest /\ sentry = NoDecision

\* the response is sent and Flask pops the request context
teardown ==
    /\ req # NoRequest
    /\ resp # Pending
    /\ req' = NoRequest
    /\ auth' = "None"
    /\ resp' = NoResponse
    /\ procs' = <<>>
    /\ sync' = SyncIdle
    /\ UNCHANGED <<config, ret, calls, sentry, maint, now>>

-----------------------------------------------------------------------------
(* Paths: _get_repo_root app.py:365-390 and the script paths. *)

REPO_DIR == strip(Env("PLANTSWIPE_REPO_DIR"))

HERE == <<"/here">>

\* the git call _get_repo_root makes when PLANTSWIPE_REPO_DIR is not set
get_repo_root_procs ==
    IF REPO_DIR # <<>> THEN <<>>
    ELSE << Proc(<< <<"git">>, <<"-c">>, <<"safe.directory=">> \o HERE,
                    <<"-C">>, HERE, <<"rev-parse">>, <<"--show-toplevel">> >>,
                 environ, NoInput) >>

\* its result; without the variable, whatever git or the fallback gives
get_repo_root == IF REPO_DIR # <<>> THEN REPO_DIR ELSE <<"/repo">>

refresh_script_path == get_repo_root \o <<"/scripts/refresh-plant-swipe.sh">>
supabase_script_path == get_repo_root \o <<"/scripts/deploy-supabase-functions.sh">>
setup_script_path == get_repo_root \o <<"/setup.sh">>
sitemap_script_path == get_repo_root \o <<"/scripts/generate-sitemap-daily.sh">>

\* os.path.isfile(path): fs.files names the files that exist by the last
\* piece of their path (the part below the repository root, or the whole
\* path of a file outside it)
isfile(path) == path # <<>> /\ path[Len(path)] \in fs.files

\* env with the entries of upd added or replaced
EnvWith(env, upd) ==
    [k \in DOMAIN env \cup DOMAIN upd |->
        IF k \in DOMAIN upd THEN upd[k] ELSE env[k]]

\* env.setdefault("CI", os.environ.get("CI", "true"))
SetDefaultCI(env) ==
    IF "CI" \in DOMAIN env THEN env ELSE EnvWith(env, [CI |-> <<"true">>])

-----------------------------------------------------------------------------
(* Streaming responses: Response(generate(), mimetype="text/event-stream"). *)

Event(name, text, ok, code) ==
    [event |-> name, text |-> text, ok |-> ok, code |-> code]

\* the code of an event whose data has no "code"
NoCode == -1

OpenEvent == Event("open", <<>>, TRUE, NoCode)
Data(text) == Event("message", text, TRUE, NoCode)
ErrorEvent(text) == Event("error", text, FALSE, NoCode)
\* app.py:613-617: {"ok": true} for exit code 0, {"ok": false, "code": code}
\* for every other
DoneEvent(code) ==
    Event("done", <<>>, code = 0, IF code = 0 THEN NoCode ELSE code)

Stream(events) == [status |-> 200, body |-> [events |-> events]]

\* len(txt) > 4000, app.py:609
MAX_LINE == 4000

\* what the source files hold after txt[:4000] +: "?" in _run_refresh, the
\* three characters U+00E2 U+20AC U+00A6 in run_setup and git_pull_stream
QUESTION_MARK == <<"?">>
ELLIPSIS == <<"U+00E2", "U+20AC", "U+00A6">>

\* app.py:609-610
truncate(txt, mark) ==
    IF Len(txt) > MAX_LINE THEN SubSeq(txt, 1, MAX_LINE) \o mark ELSE txt

\* what a child process writes, line by line, and how it ends
ChildOutputs ==
    { <<>>,
      << <<"a">>, <<"b">> >>,
      << <<>>, <<"[sudo]">> >>,
      << <<"x">>, <<"p", "a", "s", "s", "w", "o", "r", "d">> >>,
      << <<"P", "a", "s", "s", "w", "o", "r", "d", ":">>, <<"o", "k">> >>,
      << [i \in 1..(MAX_LINE + 1) |-> "a"] >> }
ExitCodes == {0, 1}

\* how a subprocess call ends: exit 0, exit 1, TimeoutExpired, OSError
RunOutcomes == {"ok", "fail", "timeout", "oserror"}

\* how a streamed child ends: Popen raises, or it writes lines and exits, the
\* read of its output raising after them or not
ChildRuns ==
    {SpawnFailed}
    \cup { Exited(lines, code, broken) :
             lines \in ChildOutputs, code \in ExitCodes, broken \in BOOLEAN }

RECURSIVE RelayAll(_, _)
\* the loop without its "if not txt: continue"
RelayAll(lines, mark) ==
    IF lines = <<>> THEN <<>>
    ELSE <<Data(truncate(Head(lines), mark))>> \o RelayAll(Tail(lines), mark)

RECURSIVE Relay(_, _)
\* app.py:604-611: every line that is not empty after rstrip is relayed,
\* cut if it is long
Relay(lines, mark) ==
    IF lines = <<>> THEN <<>>
    ELSE (IF Head(lines) = <<>> THEN <<>>
          ELSE <<Data(truncate(Head(lines), mark))>>)
         \o Relay(Tail(lines), mark)

-----------------------------------------------------------------------------
(* Branch names: app.py:554-566. *)

\* the pieces that are characters of [a-zA-Z0-9_./-]
SafeChars == {"m", "a", "b", "c", "s", "t", "x", "3", "_", ".", "/", "-"}

\* re.match(r"^[a-zA-Z0-9_./-]+$", name): $ also matches before one final
\* newline
re_match_safe(name) ==
    LET core == IF name # <<>> /\ name[Len(name)] = "LF"
                THEN SubSeq(name, 1, Len(name) - 1) ELSE name
    IN  core # <<>> /\ \A i \in 1..Len(core) : core[i] \in SafeChars

\* _validate_branch_name without its startswith("-") test
validate_branch_name_dash(name) ==
    IF name = <<>> THEN TRUE
    ELSE IF Contains(name, <<".", ".">>) THEN FALSE
    ELSE IF Contains(name, <<"/", "/">>) THEN FALSE
    ELSE IF ~re_match_safe(name) THEN FALSE
    ELSE TRUE

validate_branch_name(name) ==
    IF name = <<>> THEN TRUE
    ELSE IF StartsWith(name, <<"-">>) THEN FALSE
    ELSE IF Contains(name, <<".", ".">>) THEN FALSE
    ELSE IF Contains(name, <<"/", "/">>) THEN FALSE
    ELSE IF ~re_match_safe(name) THEN FALSE
    ELSE TRUE

\* _validate_branch_name(name) called on its own
call_validate_branch_name(names) ==
    /\ ret.fn = ""
    /\ \E name \in names :
          ret' = [fn |-> "_validate_branch_name", arg |-> name,
                  value |-> validate_branch_name(name)]
    /\ UNCHANGED <<config, calls, sentry, maint, now, req, auth, resp, procs,
                   sync>>

\* the characters branch parameters are made of
BranchChars == {"m", "-", ".", "/", ";", "SP", "LF"}
BranchInputs == SeqsUpTo(BranchChars, MaxBranchLen)
\* a few of them, for the specifications that are not about branch names
BranchSamples == { <<>>, <<"m">>, <<"-", "m">>, <<"m", "SP">> }

-----------------------------------------------------------------------------
(* pull-code: _run_refresh app.py:569-625 and its two routes 628-657. *)

refresh_env(branch) ==
    LET e1 == SetDefaultCI(environ)
        e2 == EnvWith(e1, [PLANTSWIPE_REPO_DIR |-> get_repo_root,
                           SKIP_SERVICE_RESTARTS |-> <<"true">>])
    IN  IF branch # <<>>
        THEN EnvWith(e2, [PLANTSWIPE_TARGET_BRANCH |-> branch])
        ELSE e2

\* the script handed the branch as an argument
refresh_proc_branch_argument(branch) ==
    Proc(<<refresh_script_path, branch>>, refresh_env(<<>>), NoInput)

refresh_proc(branch) ==
    Proc(<<refresh_script_path>>, refresh_env(branch), NoInput)

\* generate() of _run_refresh, app.py:585-617
\* the generator whose except clause yields the error and does not return
refresh_events_without_return(branch, run) ==
    <<OpenEvent>>
    \o (IF run = SpawnFailed THEN <<ErrorEvent(<<"OSError">>)>> ELSE <<>>)
    \o (IF branch # <<>>
        THEN <<Data(<<"[pull] Target branch requested: ">> \o branch)>>
        ELSE <<>>)
    \o (IF run = SpawnFailed THEN <<DoneEvent(1)>>
        ELSE Relay(run.lines, QUESTION_MARK) \o <<DoneEvent(run.code)>>)

\* an exception of the read loop leaves the generator after the done of
\* the finally clause, so it adds no event
refresh_events(branch, run) ==
    IF run = SpawnFailed
    THEN <<OpenEvent, ErrorEvent(<<"OSError">>)>>
    ELSE <<OpenEvent>>
         \o (IF branch # <<>>
             THEN <<Data(<<"[pull] Target branch requested: ">> \o branch)>>
             ELSE <<>>)
         \o Relay(run.lines, QUESTION_MARK)
         \o <<DoneEvent(run.code)>>

\* the part of both routes after _verify_request
RunRefresh(endpoint, cred, raw, stream) ==
    LET branch == strip(raw)
    IN  IF branch # <<>> /\ ~validate_branch_name(branch)
        THEN Done(endpoint, cred, raw, 0,
                  Json(400, [ok |-> FALSE, error |-> "Invalid branch name"]),
                  <<>>)
        ELSE IF ~isfile(refresh_script_path)
        THEN Done(endpoint, cred, raw, 0, internal_error_handler,
                  get_repo_root_procs)
        ELSE IF stream
        THEN \E run \in ChildRuns :
                Done(endpoint, cred, raw, 0,
                     Stream(refresh_events(branch, run)),
                     Append(get_repo_root_procs,
                            Ended(refresh_proc(branch), run)))
        ELSE \E spawn \in {"ok", "oserror"} :
                Done(endpoint, cred, raw, 0,
                     IF spawn = "ok"
                     THEN Json(200, [ok |-> TRUE, started |-> TRUE])
                     ELSE Json(500, [ok |-> FALSE, error |-> "OSError"]),
                     Append(get_repo_root_procs,
                            IF spawn = "ok" THEN refresh_proc(branch)
                            ELSE Ended(refresh_proc(branch), SpawnFailed)))

admin_refresh_stream(inputs) ==
    /\ Idle
    /\ \E cred \in CredSamples, raw \in inputs :
          \/ Stop("pull-code/stream", cred, raw, 0)
          \/ RunRefresh("pull-code/stream", cred, raw, TRUE) /\ maint' = maint

admin_refresh(inputs) ==
    /\ Idle
    /\ \E cred \in CredSamples, raw \in inputs :
          \/ Stop("pull-code", cred, raw, 0)
          \/ RunRefresh("pull-code", cred, raw, FALSE) /\ maint' = maint

-----------------------------------------------------------------------------
(* Maintenance mode: app.py:85-105 and the three routes 747-815. *)

\* the instants the clock is read at
ClockValues == {0, 1, 60000, 60001, 300000, 1800000, 1800001}

\* what a later read of the clock can return
Later == {t \in ClockValues : t >= now}

Max(a, b) == IF a >= b THEN a ELSE b
Min(a, b) == IF a <= b THEN a ELSE b

DigitChars == <<"0", "1", "2", "3", "4", "5", "6", "7", "8", "9">>

RECURSIVE Digits(_)
\* str(n) for n >= 0, one character a piece
Digits(n) ==
    IF n < 10 THEN <<DigitChars[n + 1]>>
    ELSE Digits(n \div 10) \o <<DigitChars[(n % 10) + 1]>>

DigitValue(c) == CHOOSE d \in 0..9 : DigitChars[d + 1] = c

RECURSIVE ParseNat(_)
\* int(s) for a string of digits
ParseNat(s) ==
    IF Len(s) = 1 THEN DigitValue(s[1])
    ELSE 10 * ParseNat(SubSeq(s, 1, Len(s) - 1)) + DigitValue(s[Len(s)])

IsNumber(s) == s # <<>> /\ \A i \in 1..Len(s) : s[i] \in Range(DigitChars)

\* the characters of a reason that JSON writes as they are
ReasonChars == {"a", "b"}
IsReason(s) == \A i \in 1..Len(s) : s[i] \in ReasonChars

\* the record enable writes, app.py:775-780
Record(enabledAt, expiresAt, reason) ==
    [active |-> TRUE, enabledAt |-> enabledAt, expiresAt |-> expiresAt,
     reason |-> reason]

\* json.dump(data, f, indent=2): the text of the file, the names of the keys
\* and the white space (the same in every record) left out
json_dump(data) ==
    <<"{">> \o Digits(data.enabledAt) \o <<",">> \o Digits(data.expiresAt)
    \o <<",">> \o data.reason \o <<"}">>

\* the positions of the two commas of a text that json.load accepts
Commas(text) ==
    {c \in (1..Len(text)) \X (1..Len(text)) :
        /\ c[1] < c[2]
        /\ text[c[1]] = "," /\ text[c[2]] = ","
        /\ IsNumber(SubSeq(text, 2, c[1] - 1))
        /\ IsNumber(SubSeq(text, c[1] + 1, c[2] - 1))
        /\ IsReason(SubSeq(text, c[2] + 1, Len(text) - 1))}

\* json.load(f) returns; it raises on an empty file, on a record cut short
\* and on text after the closing brace
json_valid(text) ==
    /\ Len(text) >= 6
    /\ text[1] = "{" /\ text[Len(text)] = "}"
    /\ Commas(text) # {}

json_load(text) ==
    LET c == CHOOSE c \in Commas(text) : TRUE
    IN  Record(ParseNat(SubSeq(text, 2, c[1] - 1)),
               ParseNat(SubSeq(text, c[1] + 1, c[2] - 1)),
               SubSeq(text, c[2] + 1, Len(text) - 1))

FileWith(text) == [exists |-> TRUE, text |-> text]

\* a record that no clock value is past
never_expired(file, t) == FALSE

\* the file is there, json.load returns and t is past its expiresAt
expired(file, t) ==
    /\ file.exists
    /\ json_valid(file.text)
    /\ json_load(file.text).expiresAt # 0
    /\ t > json_load(file.text).expiresAt

\* _get_maintenance_mode at time t, app.py:85-105: what it returns as
\* "active" (False too when json.load raises), and the file afterwards
maintenance_active(file, t) ==
    file.exists /\ json_valid(file.text) /\ ~expired(file, t)

maintenance_file_after(file, t) == IF expired(file, t) THEN NoFile ELSE file

\* GET /admin/maintenance-mode, app.py:747-759; the clock is read a second
\* time, at an instant of clock, for remainingMs
get_maintenance_mode(clock) ==
    /\ Idle
    /\ \E cred \in CredSamples :
          \/ Stop("maintenance-mode", cred, <<>>, 0)
          \/ \E t \in clock :
                LET active == maintenance_active(maint, now)
                    expiresAt == IF active THEN json_load(maint.text).expiresAt
                                 ELSE 0
                IN  /\ Verify(cred) = "Allow"
                    /\ req' = Request("maintenance-mode", cred, <<>>, 0)
                    /\ auth' = "Allow"
                    /\ resp' = Json(200,
                                    [ok |-> TRUE,
                                     active |-> active,
                                     expiresAt |-> expiresAt,
                                     remainingMs |->
                                         IF active /\ expiresAt # 0
                                         THEN Max(0, expiresAt - t) ELSE 0])
                    /\ procs' = <<>>
                    /\ maint' = maintenance_file_after(maint, now)
                    /\ now' = t
                    /\ UNCHANGED <<config, ret, calls, sentry, sync>>

\* the clamp that forgets the minimum
clamp_duration_max_only(duration_ms) == Min(duration_ms, 30 * 60 * 1000)

\* app.py:768-771
clamp_duration(duration_ms) == Min(Max(duration_ms, 60000), 30 * 60 * 1000)

\* durationMs of the payload; 300000 is also what an absent one defaults to
DurationInputs == {0, 5000, 60000, 300000, 1800001}

\* reason of the payload
ReasonInputs == { <<"a">>, <<"a", "b">> }

\* POST /admin/maintenance-mode/enable, app.py:762-795; the clock is read
\* for enabledAt and, at an instant of clock, for expiresAt
enable_maintenance_mode(clock) ==
    /\ Idle
    /\ \E cred \in CredSamples, d \in DurationInputs, reason \in ReasonInputs :
          \/ Stop("maintenance-mode/enable", cred, reason, d)
          \/ \E t \in clock, written \in BOOLEAN :
                LET data == Record(now, t + clamp_duration(d), reason)
                IN  /\ Verify(cred) = "Allow"
                    /\ req' = Request("maintenance-mode/enable", cred, reason, d)
                    /\ auth' = "Allow"
                    /\ resp' = IF written
                               THEN Json(200, [ok |-> TRUE,
                                               expiresAt |-> data.expiresAt,
                                               reason |-> reason])
                               ELSE Json(500, [ok |-> FALSE,
                                               error |-> "OSError"])
                    /\ procs' = <<>>
                    \* open(MAINTENANCE_MODE_FILE, "w") raises, or the record
                    \* is written
                    /\ maint' = IF written THEN FileWith(json_dump(data))
                                ELSE maint
                    /\ now' = t
                    /\ UNCHANGED <<config, ret, calls, sentry, sync>>

\* the handler that answers without removing the file
disable_without_unlink ==
    /\ Idle
    /\ \E cred \in CredSamples :
          \/ Stop("maintenance-mode/disable", cred, <<>>, 0)
          \/ /\ Done("maintenance-mode/disable", cred, <<>>, 0,
                     Json(200, [ok |-> TRUE]), <<>>)
             /\ maint' = maint

\* POST /admin/maintenance-mode/disable, app.py:798-815
disable_maintenance_mode ==
    /\ Idle
    /\ \E cred \in CredSamples :
          \/ Stop("maintenance-mode/disable", cred, <<>>, 0)
          \/ \E removed \in BOOLEAN :
                \* os.unlink can raise only if the file is there
                /\ removed \/ maint.exists
                /\ Done("maintenance-mode/disable", cred, <<>>, 0,
                        IF removed
                        THEN Json(200, [ok |-> TRUE])
                        ELSE Json(500, [ok |-> FALSE, error |-> "OSError"]),
                        <<>>)
                /\ maint' = IF removed THEN NoFile ELSE maint

\* time passes between two requests
Tick ==
    /\ Idle
    /\ \E t \in ClockValues : t > now /\ now' = t
    /\ UNCHANGED <<config, ret, calls, sentry, maint, req, auth, resp, procs,
                   sync>>

\* no maintenance call is running beside the request
NoCalls == <<>>

-----------------------------------------------------------------------------
(* Maintenance calls running side by side (threads or workers of the      *)
(* server): each call is at a position of its handler, app.py:762-815.    *)
(* The calls have passed _verify_request.                                  *)

\* a call of enable with durationMs d and a reason, and a call of disable,
\* before their first file operation; done counts the calls that had
\* finished their last file operation when this one finished its own
EnableCall(d, reason) ==
    [op |-> "enable", pc |-> "start", durationMs |-> d, reason |-> reason,
     data |-> Record(0, 0, <<>>), fd |-> "none", wrote |-> FALSE,
     status |-> 0, done |-> 0]

DisableCall ==
    [op |-> "disable", pc |-> "start", durationMs |-> 0, reason |-> <<>>,
     data |-> Record(0, 0, <<>>), fd |-> "none", wrote |-> FALSE,
     status |-> 0, done |-> 0]

Finished == Cardinality({i \in 1..Len(calls) : calls[i].pc = "done"})

\* write(2) of data at offset 0 of a file that holds text: the bytes after
\* the written ones stay
write_over(text, data) ==
    IF Len(text) > Len(data)
    THEN data \o SubSeq(text, Len(data) + 1, Len(text))
    ELSE data

\* app.py:775-781: data is built and open(MAINTENANCE_MODE_FILE, "w")
\* creates the file or cuts it to length 0
enable_open(i) ==
    /\ calls[i].op = "enable" /\ calls[i].pc = "start"
    /\ calls' = [calls EXCEPT
                    ![i].pc = "opened",
                    ![i].data = Record(now,
                                       now + clamp_duration(calls[i].durationMs),
                                       calls[i].reason),
                    ![i].fd = "linked"]
    /\ maint' = FileWith(<<>>)
    /\ UNCHANGED <<config, ret, sentry, now, req, auth, resp, procs, sync>>

\* app.py:781-792: leaving the with block flushes the buffered text of
\* json.dump in one write at offset 0 of the file that was opened, which
\* a disable may have unlinked since; the call answers 200
enable_write(i) ==
    /\ calls[i].op = "enable" /\ calls[i].pc = "opened"
    /\ calls' = [calls EXCEPT ![i].pc = "done", ![i].fd = "none",
                              ![i].wrote = TRUE, ![i].status = 200,
                              ![i].done = Finished + 1]
    /\ maint' = IF calls[i].fd = "linked"
                THEN FileWith(write_over(maint.text, json_dump(calls[i].data)))
                ELSE maint
    /\ UNCHANGED <<config, ret, sentry, now, req, auth, resp, procs, sync>>

\* app.py:803: os.path.exists; without the file the call answers 200
disable_exists(i) ==
    /\ calls[i].op = "disable" /\ calls[i].pc = "start"
    /\ calls' = IF maint.exists
                THEN [calls EXCEPT ![i].pc = "found"]
                ELSE [calls EXCEPT ![i].pc = "done", ![i].status = 200,
                                   ![i].done = Finished + 1]
    /\ UNCHANGED <<config, ret, sentry, maint, now, req, auth, resp, procs, sync>>

\* app.py:804-815: os.unlink removes the name, the files other calls hold
\* open live on without it; it raises if another disable removed the name
\* first, and the call answers 500
disable_unlink(i) ==
    /\ calls[i].op = "disable" /\ calls[i].pc = "found"
    /\ calls' = [j \in 1..Len(calls) |->
                    IF j = i
                    THEN [calls[j] EXCEPT
                             !.pc = "done",
                             !.wrote = maint.exists,
                             !.status = IF maint.exists THEN 200 ELSE 500,
                             !.done = Finished + 1]
                    ELSE IF maint.exists /\ calls[j].fd = "linked"
                    THEN [calls[j] EXCEPT !.fd = "orphan"]
                    ELSE calls[j]]
    /\ maint' = NoFile
    /\ UNCHANGED <<config, ret, sentry, now, req, auth, resp, procs, sync>>

-----------------------------------------------------------------------------
(* Error reporting: _should_suppress_maintenance_error app.py:108-133 and   *)
(* _sentry_before_send app.py:136-188.                                      *)

\* app.py:120
status_codes == <<"400", "502", "503", "504">>

\* app.py:126
gateway_phrases == {"Bad Gateway", "Service Unavailable", "Gateway Timeout"}

\* app.py:130
connection_terms ==
    {"ECONNREFUSED", "ECONNRESET", "ETIMEDOUT", "socket hang up",
     "Connection refused"}

\* "term in msg", msg given as the pieces it is the concatenation of
Mentions(msg, term) == \E i \in 1..Len(msg) : msg[i] = term

\* _should_suppress_maintenance_error with the file as it is at time t and
\* str(error) = msg
should_suppress_maintenance_error(file, t, msg) ==
    /\ maintenance_active(file, t)
    /\ msg # NoError
    /\ \/ \E i \in 1..Len(status_codes) :
             \/ Mentions(msg, status_codes[i])
             \/ \E p \in gateway_phrases : Mentions(msg, p)
       \/ \E term \in connection_terms : Mentions(msg, term)

-----------------------------------------------------------------------------
(* PII scrubbing: _scrub_pii_from_string app.py:62-73. A text is the       *)
(* sequence of its characters; SP, TAB and LF are the white space.          *)

LowerLetters ==
    <<"a", "b", "c", "d", "e", "f", "g", "h", "i", "j", "k", "l", "m",
      "n", "o", "p", "q", "r", "s", "t", "u", "v", "w", "x", "y", "z">>
UpperLetters ==
    <<"A", "B", "C", "D", "E", "F", "G", "H", "I", "J", "K", "L", "M",
      "N", "O", "P", "Q", "R", "S", "T", "U", "V", "W", "X", "Y", "Z">>

\* [a-zA-Z], [a-zA-Z0-9], \s
LetterChars == Range(LowerLetters) \cup Range(UpperLetters)
AlnumChars == LetterChars \cup Range(DigitChars)
SpaceChars == {"SP", "TAB", "LF"}

\* re.IGNORECASE on one character
fold_case(c) ==
    IF c \in Range(UpperLetters)
    THEN LowerLetters[CHOOSE k \in 1..26 : UpperLetters[k] = c]
    ELSE c

\* [a-zA-Z0-9._%+-], [a-zA-Z0-9.-], [A-Za-z0-9\-_\.] and what [^\s&"']
\* leaves out
EmailLocalChars == AlnumChars \cup {".", "_", "%", "+", "-"}
EmailDomainChars == AlnumChars \cup {".", "-"}
TokenChars == AlnumChars \cup {"-", "_", "."}
PasswordStopChars == SpaceChars \cup {"&", "\"", "'"}

RECURSIVE RunEnd(_, _, _)
\* the last index of the longest run of characters of class that starts at
\* i; i - 1 if there is none
RunEnd(s, i, class) ==
    IF i <= Len(s) /\ s[i] \in class THEN RunEnd(s, i + 1, class) ELSE i - 1

RECURSIVE RunEndOutside(_, _, _)
\* the same for the characters that are not in stops
RunEndOutside(s, i, stops) ==
    IF i <= Len(s) /\ s[i] \notin stops THEN RunEndOutside(s, i + 1, stops)
    ELSE i - 1

\* the texts the matches are replaced by
EMAIL_REDACTED ==
    <<"[", "E", "M", "A", "I", "L", "_", "R", "E", "D", "A", "C", "T", "E",
      "D", "]">>
PASSWORD_WORD == <<"p", "a", "s", "s", "w", "o", "r", "d">>
PASSWORD_REDACTED ==
    PASSWORD_WORD \o <<"=", "[", "R", "E", "D", "A", "C", "T", "E", "D", "]">>
BEARER_WORD == <<"B", "e", "a", "r", "e", "r">>
BEARER_REDACTED ==
    BEARER_WORD \o <<"SP", "[", "R", "E", "D", "A", "C", "T", "E", "D", "]">>

\* where the match of [a-zA-Z0-9._%+-]+@[a-zA-Z0-9.-]+\.[a-zA-Z]{2,} that
\* starts at i ends; 0 if none starts there
email_end(s, i) ==
    LET at == RunEnd(s, i, EmailLocalChars) + 1
    IN  IF at > i /\ at <= Len(s) /\ s[at] = "@"
        THEN LET d == RunEnd(s, at + 1, EmailDomainChars)
                 dots == {p \in (at + 2)..(d - 2) :
                             /\ s[p] = "."
                             /\ s[p + 1] \in LetterChars
                             /\ s[p + 2] \in LetterChars}
             IN  IF dots = {} THEN 0
                 ELSE RunEnd(s, (CHOOSE p \in dots : \A q \in dots : q <= p) + 1,
                             LetterChars)
        ELSE 0

\* the pattern without re.IGNORECASE
password_end_same_case(s, i) ==
    IF /\ i + 9 <= Len(s)
       /\ SubSeq(s, i, i + 7) = PASSWORD_WORD
       /\ s[i + 8] \in {"=", ":"}
       /\ s[i + 9] \notin PasswordStopChars
    THEN RunEndOutside(s, i + 9, PasswordStopChars)
    ELSE 0

\* where the match of password[=:][^\s&"']+ that starts at i ends, case
\* ignored; 0 if none starts there
password_end(s, i) ==
    IF /\ i + 9 <= Len(s)
       /\ [k \in 1..8 |-> fold_case(s[i + k - 1])] = PASSWORD_WORD
       /\ s[i + 8] \in {"=", ":"}
       /\ s[i + 9] \notin PasswordStopChars
    THEN RunEndOutside(s, i + 9, PasswordStopChars)
    ELSE 0

\* where the match of Bearer\s+[A-Za-z0-9\-_\.]+ that starts at i ends
bearer_end(s, i) ==
    IF i + 5 <= Len(s) /\ SubSeq(s, i, i + 5) = BEARER_WORD
    THEN LET sp == RunEnd(s, i + 6, SpaceChars)
             tok == RunEnd(s, sp + 1, TokenChars)
         IN  IF sp >= i + 6 /\ tok > sp THEN tok ELSE 0
    ELSE 0

RECURSIVE sub_email(_, _)
\* re.sub from position i on: matches are looked for from left to right and
\* do not overlap
sub_email(s, i) ==
    IF i > Len(s) THEN <<>>
    ELSE LET e == email_end(s, i)
         IN  IF e > 0 THEN EMAIL_REDACTED \o sub_email(s, e + 1)
             ELSE <<s[i]>> \o sub_email(s, i + 1)

RECURSIVE sub_password(_, _)
sub_password(s, i) ==
    IF i > Len(s) THEN <<>>
    ELSE LET e == password_end(s, i)
         IN  IF e > 0 THEN PASSWORD_REDACTED \o sub_password(s, e + 1)
             ELSE <<s[i]>> \o sub_password(s, i + 1)

RECURSIVE sub_bearer(_, _)
sub_bearer(s, i) ==
    IF i > Len(s) THEN <<>>
    ELSE LET e == bearer_end(s, i)
         IN  IF e > 0 THEN BEARER_REDACTED \o sub_bearer(s, e + 1)
             ELSE <<s[i]>> \o sub_bearer(s, i + 1)

\* app.py:62-73
scrub_pii_from_string(value) ==
    sub_bearer(sub_password(sub_email(value, 1), 1), 1)

\* str(error) of the errors handed to the reporter, and exc_value.code
\* (0: the exception has no code)
ErrorInputs ==
    [msg : { NoError,
             <<"boom">>,
             <<"upstream answered ", "502">>,
             <<"port 1", "502", "0 in use">>,
             <<"Bad Gateway">>,
             <<"connect ", "ECONNREFUSED", " 127.0.0.1">>,
             <<"socket hang up">>,
             <<"expected ", "400", "0 rows">>,
             <<"500", " Internal Server Error">> },
     code : {0}]
    \cup { [msg |-> <<"400", " Bad Request">>, code |-> 400],
           [msg |-> <<"401", " Unauthorized">>, code |-> 401] }

\* the error reporter calls _sentry_before_send(event, hint), the event
\* carrying one exception whose value is one of values; scrubbed is the
\* value in the event that is returned
sentry_before_send(values) ==
    /\ Idle
    /\ \E e \in ErrorInputs, value \in values :
          LET suppressed == should_suppress_maintenance_error(maint, now, e.msg)
              sent == ~suppressed /\ e.code \notin {400, 401}
          IN  sentry' = [msg |-> e.msg, at |-> now,
                         active |-> maintenance_active(maint, now),
                         running |-> TRUE,
                         suppressed |-> suppressed,
                         sent |-> sent,
                         value |-> value,
                         scrubbed |-> IF sent
                                      THEN scrub_pii_from_string(value)
                                      ELSE <<>>]
    \* _get_maintenance_mode removes a file that has expired
    /\ maint' = maintenance_file_after(maint, now)
    /\ UNCHANGED <<config, ret, calls, now, req, auth, resp, procs, sync>>

\* _sentry_before_send has returned
sentry_returned ==
    /\ sentry # NoDecision
    /\ sentry' = NoDecision
    /\ UNCHANGED <<config, ret, calls, maint, now, req, auth, resp, procs, sync>>

-----------------------------------------------------------------------------
(* Services: app.py:213-223, 346-364 and the routes 818-853. *)

RECURSIVE parse_allowed_services(_)
\* env_value.split(",") is given as the sequence of its parts
parse_allowed_services(parts) ==
    IF parts = <<>> THEN {}
    ELSE LET candidate == strip(Head(parts))
             rest == parse_allowed_services(Tail(parts))
         IN  IF candidate = <<>> THEN rest
             ELSE (IF EndsWith(candidate, <<".service">>)
                   THEN {SubSeq(candidate, 1, Len(candidate) - 1)} ELSE {})
                  \cup {candidate} \cup rest

is_service_allowed(service_name) ==
    IF EndsWith(service_name, <<".service">>)
    THEN service_name \in ALLOWED_SERVICES
    ELSE \/ service_name \in ALLOWED_SERVICES
         \/ (service_name \o <<".service">>) \in ALLOWED_SERVICES

\* _is_service_allowed(name) called on its own
call_is_service_allowed(names) ==
    /\ Idle
    /\ ret.fn = ""
    /\ \E name \in names :
          ret' = [fn |-> "_is_service_allowed", arg |-> name,
                  value |-> is_service_allowed(name)]
    /\ UNCHANGED <<config, calls, sentry, maint, now, req, auth, resp, procs, sync>>

systemctl(verb, service_name) ==
    << <<"sudo">>, <<"systemctl">>, <<verb>>, service_name >>

\* the service names requests carry; <<>> is "no service given"
ServiceInputs ==
    { <<>>, <<"SP">>, <<"nginx">>, <<"nginx", ".service">>, <<"SP", "nginx">>,
      <<"plant-swipe-node">>, <<"admin-api">>, <<"sshd">>,
      <<"sshd", ".service">> }

restart_app ==
    /\ Idle
    /\ \E cred \in CredSamples, given \in ServiceInputs :
          \/ Stop("restart-app", cred, given, 0)
          \/ LET service == strip(IF given # <<>> THEN given
                                  ELSE DEFAULT_SERVICE)
             IN  /\ maint' = maint
                 /\ IF service = <<>>
                    THEN Done("restart-app", cred, given, 0,
                              bad_request_handler("missing service"), <<>>)
                    ELSE IF ~is_service_allowed(service)
                    THEN Done("restart-app", cred, given, 0,
                              bad_request_handler("service not allowed"),
                              <<>>)
                    ELSE \E out \in {"ok", "fail"} :
                            Done("restart-app", cred, given, 0,
                                 IF out = "ok"
                                 THEN Json(200, [ok |-> TRUE,
                                                 action |-> "restart"])
                                 ELSE internal_error_handler,
                                 << Proc(systemctl("restart", service),
                                         environ, NoInput) >>)

reload_nginx ==
    /\ Idle
    /\ \E cred \in CredSamples :
          \/ Stop("reload-nginx", cred, <<>>, 0)
          \/ \E out \in {"ok", "fail"} :
                /\ maint' = maint
                /\ Done("reload-nginx", cred, <<>>, 0,
                        IF out = "ok"
                        THEN Json(200, [ok |-> TRUE, action |-> "reload"])
                        ELSE internal_error_handler,
                        << Proc(systemctl("reload", <<"nginx">>),
                                environ, NoInput) >>)

reboot ==
    /\ Idle
    /\ \E cred \in CredSamples :
          \/ Stop("reboot", cred, <<>>, 0)
          \/ \E out \in {"ok", "fail"} :
                /\ maint' = maint
                /\ Done("reboot", cred, <<>>, 0,
                        IF out = "ok"
                        THEN Json(200, [ok |-> TRUE, action |-> "reboot"])
                        ELSE internal_error_handler,
                        << Proc(<< <<"sudo">>, <<"systemctl">>, <<"reboot">> >>,
                                environ, NoInput) >>)

-----------------------------------------------------------------------------
(* restart-server: app.py:1282-1351. *)

PasswordInputs == { <<>>, <<"p", "w">> }

\* app.py:1304 and 1326
restart_steps ==
    << [verb |-> "reload", svc |-> <<"nginx">>],
       [verb |-> "restart", svc |-> <<"plant-swipe-node">>],
       [verb |-> "restart", svc |-> <<"admin-api">>] >>

\* the command that is handed the password as its last argument
sudo_systemctl_password_argument(verb, service_name, password) ==
    Proc(<< <<"sudo">>, <<"systemctl">>, <<verb>>, service_name, password >>,
         environ, NoInput)

sudo_systemctl(verb, service_name, password) ==
    Proc(<< <<"sudo">>, <<"-S">>, <<"systemctl">>, <<verb>>, service_name >>,
         environ, password \o <<"LF">>)

\* how the Popen(...) and p.communicate(timeout=...) that end as out ended
EndOf(out) ==
    CASE out = "oserror" -> SpawnFailed
      [] out = "timeout" -> TimedOut(FALSE)
      [] out = "ok" -> Exited(<<>>, 0, FALSE)
      [] out = "fail" -> Exited(<<>>, 1, FALSE)

RECURSIVE restart_run(_, _, _)
\* generate() from step i on, outs[i] being how the i-th command ends:
\* the events yielded and the processes spawned
restart_run(i, outs, password) ==
    IF i > Len(restart_steps)
    THEN [events |-> << Data(<<"[restart] All services restarted successfully">>),
                        DoneEvent(0) >>,
          procs |-> <<>>]
    ELSE LET st == restart_steps[i]
             p == Ended(sudo_systemctl(st.verb, st.svc, password),
                        EndOf(outs[i]))
             pre == << Data(<<"[restart] ", st.verb, " ">> \o st.svc) >>
         IN  IF outs[i] = "oserror"
             THEN [events |-> pre \o <<ErrorEvent(<<"OSError">>)>>,
                   procs |-> <<p>>]
             ELSE IF outs[i] = "timeout"
             THEN [events |-> pre \o <<ErrorEvent(<<"Operation timed out">>)>>,
                   procs |-> <<p>>]
             ELSE LET rest == restart_run(i + 1, outs, password)
                  IN  [events |->
                          pre \o << Data(<<"[restart] ", outs[i], " ">> \o st.svc) >>
                              \o rest.events,
                       procs |-> <<p>> \o rest.procs]

restart_server_with_password ==
    /\ Idle
    /\ \E cred \in CredSamples, password \in PasswordInputs :
          \/ Stop("restart-server", cred, password, 0)
          \/ /\ maint' = maint
             /\ IF password = <<>>
                THEN Done("restart-server", cred, password, 0,
                          Json(400, [ok |-> FALSE,
                                     error |-> "Root password required"]),
                          <<>>)
                ELSE \E outs \in [1..Len(restart_steps) -> RunOutcomes] :
                        LET run == restart_run(1, outs, password)
                        IN  Done("restart-server", cred, password, 0,
                                 Stream(<<OpenEvent>> \o run.events),
                                 run.procs)

-----------------------------------------------------------------------------
(* Buffered script endpoints: deploy-edge-functions app.py:660-734,         *)
(* regenerate-sitemap 1464-1539, git-pull 1412-1457, clear-memory           *)
(* 1254-1279, branches 505-551.                                             *)

script_env ==
    EnvWith(SetDefaultCI(environ), [PLANTSWIPE_REPO_DIR |-> get_repo_root])

\* what a child wrote to stdout and to stderr, as subprocess.run captures
\* it: two texts, one character per piece, "LF" and "CR" the line ends
Captured(stdout, stderr) == [stdout |-> stdout, stderr |-> stderr]

\* the run that ended as out, the child having written o before it exited
RunEndWith(out, o) ==
    IF out \in {"ok", "fail"}
    THEN [how |-> "exit", lines |-> <<>>, code |-> IF out = "ok" THEN 0 ELSE 1,
          broken |-> FALSE, stdout |-> o.stdout, stderr |-> o.stderr]
    ELSE RunEndOf(out)

\* str.splitlines(): the text cut at every "\n", "\r" and "\r\n"; no empty
\* last line after a final line end
IsLineEnd(c) == c \in {"LF", "CR"}

\* the first line end of text at or after position from, Len(text) + 1 if
\* there is none
LineStop(text, from) ==
    IF \E j \in from..Len(text) : IsLineEnd(text[j])
    THEN CHOOSE j \in from..Len(text) :
            /\ IsLineEnd(text[j])
            /\ \A k \in from..(j - 1) : ~IsLineEnd(text[k])
    ELSE Len(text) + 1

\* where the line after the line end at stop starts
AfterLineEnd(text, stop) ==
    IF stop < Len(text) /\ text[stop] = "CR" /\ text[stop + 1] = "LF"
    THEN stop + 2 ELSE stop + 1

\* the lines of text between the positions lo and hi, cut in halves
RECURSIVE SplitBetween(_, _, _)
SplitBetween(text, lo, hi) ==
    IF lo > hi THEN <<>>
    ELSE LET mid == (lo + hi) \div 2
             \* the line that holds position mid, or ends at it
             start == IF \E j \in lo..(mid - 1) : IsLineEnd(text[j])
                      THEN LET e == CHOOSE j \in lo..(mid - 1) :
                                       /\ IsLineEnd(text[j])
                                       /\ \A k \in (j + 1)..(mid - 1) :
                                             ~IsLineEnd(text[k])
                           IN  IF text[e] = "CR" /\ text[e + 1] = "LF"
                               THEN e + 2 ELSE e + 1
                      ELSE lo
             stop == LineStop(text, start)
         IN  IF start > hi
             THEN SplitBetween(text, lo, mid - 1)
             ELSE SplitBetween(text, lo, start - 1)
                  \o <<SubSeq(text, start, stop - 1)>>
                  \o SplitBetween(text, AfterLineEnd(text, stop), hi)

splitlines(text) == SplitBetween(text, 1, Len(text))

\* "\n".join(lines), joined in halves
RECURSIVE join(_)
join(lines) ==
    IF lines = <<>> THEN <<>>
    ELSE IF Len(lines) = 1 THEN lines[1]
         ELSE LET h == Len(lines) \div 2
              IN  join(SubSeq(lines, 1, h)) \o <<"LF">>
                  \o join(SubSeq(lines, h + 1, Len(lines)))

\* lines[-n:]
last_lines(lines, n) ==
    IF Len(lines) <= n THEN lines
    ELSE SubSeq(lines, Len(lines) - n + 1, Len(lines))

\* "\n".join(text.splitlines()[-n:]), app.py:704-705 and 1509-1510
tail(text, n) == join(last_lines(splitlines(text), n))

\* the line counts of the tails: deploy-edge-functions app.py:704-705,
\* regenerate-sitemap 1509-1510
DEPLOY_STDOUT_LINES == 200
DEPLOY_STDERR_LINES == 100
SITEMAP_STDOUT_LINES == 100
SITEMAP_STDERR_LINES == 50

\* subprocess.run([script_path], ..., check=False) and the response built
\* from how it ends
script_response(out, o, nOut, nErr) ==
    CASE out = "ok" ->
            Json(200, [ok |-> TRUE, returncode |-> 0,
                       stdout |-> tail(o.stdout, nOut),
                       stderr |-> tail(o.stderr, nErr)])
      [] out = "fail" ->
            Json(500, [ok |-> FALSE, returncode |-> 1,
                       stdout |-> tail(o.stdout, nOut),
                       stderr |-> tail(o.stderr, nErr)])
      [] out = "timeout" -> Json(504, [ok |-> FALSE, error |-> "timed out"])
      [] out = "oserror" -> Json(500, [ok |-> FALSE, error |-> "OSError"])

RunScript(endpoint, cred, script_path, outs, nOut, nErr) ==
    IF ~isfile(script_path)
    THEN Done(endpoint, cred, <<>>, 0,
              Json(500, [ok |-> FALSE, error |-> "script not found"]),
              get_repo_root_procs)
    ELSE \E out \in RunOutcomes, o \in outs :
            Done(endpoint, cred, <<>>, 0,
                 script_response(out, o, nOut, nErr),
                 Append(get_repo_root_procs,
                        Ended(Proc(<<script_path>>, script_env, NoInput),
                              RunEndWith(out, o))))

admin_deploy_edge_functions(outs) ==
    /\ Idle
    /\ \E cred \in CredSamples :
          \/ Stop("deploy-edge-functions", cred, <<>>, 0)
          \/ /\ RunScript("deploy-edge-functions", cred, supabase_script_path,
                          outs, DEPLOY_STDOUT_LINES, DEPLOY_STDERR_LINES)
             /\ maint' = maint

regenerate_sitemap(outs) ==
    /\ Idle
    /\ \E cred \in CredSamples :
          \/ Stop("regenerate-sitemap", cred, <<>>, 0)
          \/ /\ RunScript("regenerate-sitemap", cred, sitemap_script_path,
                          outs, SITEMAP_STDOUT_LINES, SITEMAP_STDERR_LINES)
             /\ maint' = maint

git_pull_cmd ==
    << <<"sudo">>, <<"-u">>, <<"www-data">>, <<"git">>, <<"-c">>,
       <<"safe.directory=">> \o get_repo_root, <<"-C">>, get_repo_root,
       <<"pull">>, <<"--ff-only">> >>

\* result.stdout and result.stderr go into the answer as captured,
\* app.py:1440-1453
git_pull(outs) ==
    /\ Idle
    /\ \E cred \in CredSamples :
          \/ Stop("git-pull", cred, <<>>, 0)
          \/ \E out \in RunOutcomes, o \in outs :
                /\ maint' = maint
                /\ Done("git-pull", cred, <<>>, 0,
                        CASE out = "ok" ->
                                Json(200, [ok |-> TRUE, output |-> o.stdout])
                          [] out = "fail" ->
                                Json(500, [ok |-> FALSE, code |-> 1,
                                           output |-> o.stdout,
                                           stderr |-> o.stderr])
                          [] out = "timeout" ->
                                Json(504, [ok |-> FALSE, error |-> "timed out"])
                          [] out = "oserror" ->
                                Json(500, [ok |-> FALSE, error |-> "OSError"]),
                        Append(get_repo_root_procs,
                               Ended(Proc(git_pull_cmd, environ, NoInput),
                                     RunEndWith(out, o))))

\* generate() of git_pull_stream, app.py:1365-1407
\* an exception of the read loop reaches the outer except after the done of
\* the finally clause
git_pull_events(run) ==
    <<OpenEvent, Data(<<"[git] Running git pull in ">> \o get_repo_root)>>
    \o (IF run = SpawnFailed
        THEN <<ErrorEvent(<<"OSError">>)>>
        ELSE Relay(run.lines, ELLIPSIS)
             \o << Data(IF run.code = 0
                        THEN <<"[git] Git pull completed successfully">>
                        ELSE <<"[git] Git pull failed with code">>),
                   DoneEvent(run.code) >>
             \o (IF run.broken THEN <<ErrorEvent(<<"ReadError">>)>> ELSE <<>>))

git_pull_stream ==
    /\ Idle
    /\ \E cred \in CredSamples :
          \/ Stop("git-pull/stream", cred, <<>>, 0)
          \/ \E run \in ChildRuns :
                /\ maint' = maint
                /\ Done("git-pull/stream", cred, <<>>, 0,
                        Stream(git_pull_events(run)),
                        Append(get_repo_root_procs,
                               Ended(Proc(git_pull_cmd, environ, NoInput),
                                     run)))

clear_memory ==
    /\ Idle
    /\ \E cred \in CredSamples :
          \/ Stop("clear-memory", cred, <<>>, 0)
          \/ \E first \in {"ok", "fail", "timeout"},
                second \in {"ok", "fail", "timeout"} :
                LET sync_proc == Proc(<< <<"sync">> >>, environ, NoInput)
                    drop_proc ==
                        Proc(<< <<"sudo">>, <<"bash">>, <<"-c">>,
                                <<"echo 3 > /proc/sys/vm/drop_caches">> >>,
                             environ, NoInput)
                    last == IF first = "ok" THEN second ELSE first
                IN  /\ maint' = maint
                    /\ Done("clear-memory", cred, <<>>, 0,
                            CASE last = "ok" -> Json(200, [ok |-> TRUE])
                              [] last = "timeout" ->
                                    Json(504, [ok |-> FALSE,
                                               error |-> "timed out"])
                              [] last = "fail" ->
                                    Json(500, [ok |-> FALSE,
                                               error |-> "failed"]),
                            IF first = "ok" THEN <<sync_proc, drop_proc>>
                            ELSE <<sync_proc>>)

git_base(args) ==
    << <<"git">>, <<"-c">>, <<"safe.directory=">> \o get_repo_root, <<"-C">>,
       get_repo_root >> \o args

list_branches ==
    /\ Idle
    /\ \E cred \in CredSamples :
          \/ Stop("branches", cred, <<>>, 0)
          \/ \E out \in {"remote", "local", "exception"} :
                LET update == Proc(git_base(<< <<"remote">>, <<"update">>,
                                               <<"--prune">> >>),
                                   environ, NoInput)
                    remotes == Proc(git_base(<< <<"for-each-ref">>,
                                                <<"refs/remotes/origin">> >>),
                                    environ, NoInput)
                    heads == Proc(git_base(<< <<"for-each-ref">>,
                                              <<"refs/heads">> >>),
                                  environ, NoInput)
                    head == Proc(git_base(<< <<"rev-parse">>,
                                             <<"--abbrev-ref">>, <<"HEAD">> >>),
                                 environ, NoInput)
                IN  /\ maint' = maint
                    /\ Done("branches", cred, <<>>, 0,
                            IF out = "exception"
                            THEN Json(500, [error |-> "exception"])
                            ELSE Json(200, [current |-> "main"]),
                            get_repo_root_procs \o
                            (CASE out = "exception" -> <<update>>
                               [] out = "remote" -> <<update, remotes, head>>
                               [] out = "local" ->
                                     <<update, remotes, heads, head>>))

-----------------------------------------------------------------------------
(* run-setup: app.py:1181-1251. *)

\* str.lower() on the pieces that spell upper-case letters
LowerChar(c) == CASE c = "P" -> "p" [] c = "[SUDO]" -> "[sudo]" [] OTHER -> c
lower(s) == [i \in 1..Len(s) |-> LowerChar(s[i])]

\* the test that leaves out .lower()
echoes_prompt_as_written(txt) ==
    \/ Contains(txt, <<"[sudo]">>)
    \/ Contains(txt, <<"p", "a", "s", "s", "w", "o", "r", "d">>)

echoes_prompt(txt) ==
    \/ Contains(lower(txt), <<"[sudo]">>)
    \/ Contains(lower(txt), <<"p", "a", "s", "s", "w", "o", "r", "d">>)

RECURSIVE RelaySetup(_)
\* app.py:1231-1241
RelaySetup(lines) ==
    IF lines = <<>> THEN <<>>
    ELSE (IF Head(lines) = <<>> \/ echoes_prompt(Head(lines)) THEN <<>>
          ELSE <<Data(truncate(Head(lines), ELLIPSIS))>>)
         \o RelaySetup(Tail(lines))

\* generate() of run_setup, app.py:1203-1249
setup_events(run) ==
    IF run = SpawnFailed
    THEN <<OpenEvent, ErrorEvent(<<"OSError">>)>>
    ELSE <<OpenEvent>> \o RelaySetup(run.lines) \o <<DoneEvent(run.code)>>
         \o (IF run.broken THEN <<ErrorEvent(<<"ReadError">>)>> ELSE <<>>)

run_setup ==
    /\ Idle
    /\ \E cred \in CredSamples, password \in PasswordInputs :
          \/ Stop("run-setup", cred, password, 0)
          \/ /\ maint' = maint
             /\ IF password = <<>>
                THEN Done("run-setup", cred, password, 0,
                          Json(400, [ok |-> FALSE,
                                     error |-> "Root password required"]),
                          <<>>)
                ELSE IF ~isfile(setup_script_path)
                THEN Done("run-setup", cred, password, 0,
                          Json(500, [ok |-> FALSE,
                                     error |-> "setup.sh not found"]),
                          get_repo_root_procs)
                ELSE \E run \in ChildRuns :
                        Done("run-setup", cred, password, 0,
                             Stream(setup_events(run)),
                             Append(get_repo_root_procs,
                                    Ended(Proc(<< <<"sudo">>, <<"-S">>,
                                                  setup_script_path >>,
                                               EnvWith(environ,
                                                       [CI |-> <<"true">>]),
                                               password \o <<"LF">>),
                                          run)))

-----------------------------------------------------------------------------
(* Database URL: app.py:428-494. *)

Or(a, b) == IF a # <<>> THEN a ELSE b

\* urllib.parse.quote on one character: "@" is not in the safe set
QuoteChar(c) == IF c = "@" THEN <<"%", "4", "0">> ELSE <<c>>

RECURSIVE quote(_)
quote(s) == IF s = <<>> THEN <<>> ELSE QuoteChar(Head(s)) \o quote(Tail(s))

\* the query strings of the model, each one piece
QueryPieces == {"?sslmode=require", "?sslmode=prefer", "?sslmode=verify-full"}

UrlQuery(u) == IF u # <<>> /\ u[Len(u)] \in QueryPieces THEN u[Len(u)] ELSE ""

UrlBase(u) == IF UrlQuery(u) # "" THEN SubSeq(u, 1, Len(u) - 1) ELSE u

\* urlparse(u).hostname: the piece after "@"
UrlHost(u) ==
    IF \E i \in 1..(Len(u) - 1) : u[i] = "@"
    THEN u[(CHOOSE i \in 1..(Len(u) - 1) :
               u[i] = "@" /\ \A j \in 1..(i - 1) : u[j] # "@") + 1]
    ELSE ""

\* urlparse(u).password, still percent-encoded: between ":" and "@"
UrlPassword(u) ==
    IF \E i \in 1..Len(u), j \in 1..Len(u) : i < j /\ u[i] = ":" /\ u[j] = "@"
    THEN LET i == CHOOSE i \in 1..Len(u) : u[i] = ":"
             j == CHOOSE j \in 1..Len(u) : u[j] = "@"
         IN  SubSeq(u, i + 1, j - 1)
    ELSE <<>>

ensure_sslmode_in_url(db_url) ==
    IF UrlHost(db_url) \in {"localhost", "127.0.0.1"} THEN db_url
    ELSE IF UrlQuery(db_url) \notin {"?sslmode=require", "?sslmode=prefer",
                                     "?sslmode=allow"}
    THEN UrlBase(db_url) \o <<"?sslmode=require">>
    ELSE db_url

\* postgresql://{auth}@{host}:{port}/{database} of app.py:474 and 490
pg_url(user, password, host) ==
    <<"postgresql://">> \o quote(user)
    \o (IF password # <<>> THEN <<":">> \o quote(password) ELSE <<>>)
    \o <<"@">> \o host \o <<":5432/postgres">>

\* https://<ref>.supabase.co: (u.hostname or '').split('.')[0]
project_ref(supa_url) ==
    IF Len(supa_url) >= 2 THEN SubSeq(supa_url, 2, Len(supa_url) - 1) ELSE <<>>

\* the PG* pieces asked before the direct URLs
build_database_url_pieces_first ==
    LET direct == Or(Env("DATABASE_URL"),
                     Or(Env("POSTGRES_URL"),
                        Or(Env("POSTGRES_PRISMA_URL"), Env("SUPABASE_DB_URL"))))
        host == Or(Env("PGHOST"), Env("POSTGRES_HOST"))
        user == Or(Env("PGUSER"), Env("POSTGRES_USER"))
        password == Or(Env("PGPASSWORD"), Env("POSTGRES_PASSWORD"))
    IN  IF host # <<>> /\ user # <<>>
        THEN ensure_sslmode_in_url(pg_url(user, password, host))
        ELSE IF direct # <<>> THEN ensure_sslmode_in_url(direct)
        ELSE <<>>

build_database_url ==
    LET direct == Or(Env("DATABASE_URL"),
                     Or(Env("POSTGRES_URL"),
                        Or(Env("POSTGRES_PRISMA_URL"), Env("SUPABASE_DB_URL"))))
        host == Or(Env("PGHOST"), Env("POSTGRES_HOST"))
        user == Or(Env("PGUSER"), Env("POSTGRES_USER"))
        password == Or(Env("PGPASSWORD"), Env("POSTGRES_PASSWORD"))
        supa_url == Or(Env("SUPABASE_URL"), Env("VITE_SUPABASE_URL"))
        supa_pass == Or(Env("SUPABASE_DB_PASSWORD"),
                        Or(Env("PGPASSWORD"), Env("POSTGRES_PASSWORD")))
        supa_user == Or(Env("SUPABASE_DB_USER"),
                        Or(Env("PGUSER"), Or(Env("POSTGRES_USER"), <<"postgres">>)))
    IN  IF direct # <<>> THEN ensure_sslmode_in_url(direct)
        ELSE IF host # <<>> /\ user # <<>>
        THEN ensure_sslmode_in_url(pg_url(user, password, host))
        ELSE IF supa_url # <<>> /\ supa_pass # <<>>
        THEN ensure_sslmode_in_url(
                 pg_url(supa_user, supa_pass,
                        <<"db.">> \o project_ref(supa_url) \o <<".supabase.co">>))
        ELSE <<>>

-----------------------------------------------------------------------------
(* Sync units: app.py:408-425. *)

sync_parts_dir == get_repo_root \o <<"/plant-swipe/supabase/sync_parts">>

\* code point of the first character of a piece
Ord(c) ==
    CASE c = ".sql" -> 46 [] c = ".md" -> 46
      [] c = "0" -> 48 [] c = "1" -> 49 [] c = "2" -> 50
      [] c = "B" -> 66 [] c = "a" -> 97

RECURSIVE StrLess(_, _)
\* Python: a < b on str
StrLess(a, b) ==
    IF b = <<>> THEN FALSE
    ELSE IF a = <<>> THEN TRUE
    ELSE IF Head(a) = Head(b) THEN StrLess(Tail(a), Tail(b))
    ELSE Ord(Head(a)) < Ord(Head(b))

RECURSIVE listdir_order(_)
\* the names as os.listdir gives them, without sorted(): here, descending
listdir_order(S) ==
    IF S = {} THEN <<>>
    ELSE LET m == CHOOSE x \in S : \A y \in S \ {x} : StrLess(y, x)
         IN  <<m>> \o listdir_order(S \ {m})

RECURSIVE sorted(_)
\* Python: sorted(S) for a set of distinct str
sorted(S) ==
    IF S = {} THEN <<>>
    ELSE LET m == CHOOSE x \in S : \A y \in S \ {x} : StrLess(x, y)
         IN  <<m>> \o sorted(S \ {m})

\* Path(name).suffix == '.sql'
has_sql_suffix(name) == Len(name) >= 2 /\ name[Len(name)] = ".sql"

get_sql_files_in_order ==
    IF ~fs.sync_parts_is_dir THEN <<>>
    ELSE sorted({f \in fs.sync_parts : has_sql_suffix(f)})

-----------------------------------------------------------------------------
(* sync_schema: app.py:856-1174. *)

\* how one psql call can end: the results it can return, TimeoutExpired,
\* any other exception
PsqlResults(by) ==
    { Res(0, FALSE, <<>>, <<>>, by),
      Res(0, FALSE, <<"psql:", "error:", "x">>, <<>>, by),
      Res(0, FALSE, <<>>, <<"Error:", "x">>, by),
      Res(0, TRUE, <<>>, <<"certificate">>, by),
      Res(1, TRUE, <<>>, <<"certificate">>, by),
      Res(1, FALSE, <<>>, <<"psql:", "ERROR:", "x">>, by),
      Res(1, FALSE, <<>>, <<>>, by) }

\* warnings[:20], app.py:1117 and 1167
WARNINGS_LIMIT == 20

\* the lines with WARNING: or NOTICE: that applying sql_file writes
notices_of(sql_file) == IF sql_file \in fs.noisy THEN WARNINGS_LIMIT ELSE 0

\* the results one psql call on sql_file can return
PsqlRuns(by, sql_file) ==
    { [res EXCEPT !.notices = notices_of(sql_file)] : res \in PsqlResults(by) }

\* app.py:1065-1068: one warning for each such line of a unit that succeeded
collected_warnings(entry) ==
    IF entry.status = "success"
    THEN [n \in 1..entry.res.notices |-> <<"[">> \o entry.file \o <<"] NOTICE:">>]
    ELSE <<>>

\* warnings[:n]
Take(warnings, n) == SubSeq(warnings, 1, Min(n, Len(warnings)))

\* app.py:981-987
ca_paths ==
    << <<"/etc/ssl/certs/ca-certificates.crt">>,
       <<"/etc/pki/tls/certs/ca-bundle.crt">>,
       <<"/etc/ssl/ca-bundle.pem">>,
       <<"/etc/ssl/cert.pem">>,
       <<"/usr/local/share/ca-certificates/cacert.pem">> >>

\* the first index >= k of a CA path that is a file, 0 if there is none
NextCa(k) ==
    IF \E j \in k..Len(ca_paths) : isfile(ca_paths[j])
    THEN CHOOSE j \in k..Len(ca_paths) :
            isfile(ca_paths[j]) /\ \A l \in k..(j - 1) : ~isfile(ca_paths[l])
    ELSE 0

\* environment keys that start with PGSSL, and with PGSSL or SSL_
PgSslKeys == {"PGSSLMODE", "PGSSLROOTCERT", "PGSSLCERT"}
SslKeys == PgSslKeys \cup {"SSL_CERT_FILE"}

NONEXISTENT_ROOT_CERT == <<"/nonexistent/.postgresql/root.crt">>
CA_TEMP_FILE == <<"/tmp/ca.pem">>

\* app.py:903-918; ca_cert_path = <<>> is None
build_psql_env(ca_cert_path, use_nonexistent) ==
    LET kept == [k \in DOMAIN environ \ SslKeys |-> environ[k]]
        env == EnvWith(kept, [PGSSLMODE |-> <<"require">>])
    IN  IF use_nonexistent
        THEN EnvWith(env, [PGSSLROOTCERT |-> NONEXISTENT_ROOT_CERT])
        ELSE IF ca_cert_path # <<>>
        THEN EnvWith(env, [PGSSLROOTCERT |-> ca_cert_path])
        ELSE env

\* app.py:1003-1008
sync_psql_env ==
    EnvWith([k \in DOMAIN environ \ PgSslKeys |-> environ[k]],
            [PGSSLMODE |-> <<"require">>,
             PGSSLROOTCERT |-> NONEXISTENT_ROOT_CERT])

\* app.py:920-929
modify_url_sslmode(url) == UrlBase(url) \o <<"?sslmode=require">>

\* app.py:931-933
update_cmd_url(cmd, old_url, new_url) ==
    [i \in 1..Len(cmd) |-> IF cmd[i] = old_url THEN new_url ELSE cmd[i]]

sql_path(sql_file) == sync_parts_dir \o <<"/">> \o sql_file

\* app.py:1022-1029
psql_cmd(db_url, sql_file) ==
    << <<"psql">>, db_url, <<"-v">>, <<"ON_ERROR_STOP=1">>, <<"-X">>, <<"-q">>,
       <<"-f">>, sql_path(sql_file) >>

\* app.py:936-937
cmd_modified(db_url, sql_file) ==
    update_cmd_url(psql_cmd(db_url, sql_file), db_url,
                   modify_url_sslmode(db_url))

\* str.upper() on the words of psql's output
UpperChar(c) ==
    CASE c = "error:" -> "ERROR:" [] c = "Error:" -> "ERROR:" [] OTHER -> c
upper(s) == [i \in 1..Len(s) |-> UpperChar(s[i])]

\* the test that leaves out .upper()
file_has_error_as_written(res) ==
    \/ res.returncode # 0
    \/ Mentions(res.out, "ERROR:")
    \/ Mentions(res.err, "ERROR:")

\* app.py:1039
file_has_error(res) ==
    \/ res.returncode # 0
    \/ Mentions(upper(res.out), "ERROR:")
    \/ Mentions(upper(res.err), "ERROR:")

\* one entry of results, app.py:1047-1063 and 1072-1089
SyncResult(file, status, error, res) ==
    [file |-> file, status |-> status, error |-> error, res |-> res]

\* the loop that breaks at the first failed unit
RecordedFailFast(st, entry) ==
    LET failed == entry.status = "error"
    IN  [st EXCEPT
            !.results = Append(@, entry),
            !.all_warnings = @ \o collected_warnings(entry),
            !.has_any_error = @ \/ failed,
            !.failed_file = IF failed /\ @ = <<>> THEN entry.file ELSE @,
            !.i = @ + 1,
            !.pc = IF failed \/ st.i + 1 > Len(st.files)
                   THEN "summary" ELSE "s1",
            !.res = NoRes,
            !.ca = 0]

\* the bookkeeping that overwrites failed_file at every failure
RecordedLastFailure(st, entry) ==
    LET failed == entry.status = "error"
    IN  [st EXCEPT
            !.results = Append(@, entry),
            !.all_warnings = @ \o collected_warnings(entry),
            !.has_any_error = @ \/ failed,
            !.failed_file = IF failed THEN entry.file ELSE @,
            !.i = @ + 1,
            !.pc = IF st.i + 1 > Len(st.files) THEN "summary" ELSE "s1",
            !.res = NoRes,
            !.ca = 0]

\* results.append(...) and the bookkeeping after it; then the next unit
Recorded(st, entry) ==
    LET failed == entry.status = "error"
    IN  [st EXCEPT
            !.results = Append(@, entry),
            !.all_warnings = @ \o collected_warnings(entry),
            !.has_any_error = @ \/ failed,
            !.failed_file = IF failed /\ @ = <<>> THEN entry.file ELSE @,
            !.i = @ + 1,
            !.pc = IF st.i + 1 > Len(st.files) THEN "summary" ELSE "s1",
            !.res = NoRes,
            !.ca = 0]

\* _run_psql_with_ssl_fallback returned res
Returned(st, res) ==
    Recorded(st, SyncResult(st.files[st.i],
                            IF file_has_error(res) THEN "error" ELSE "success",
                            IF file_has_error(res) THEN "psql" ELSE "",
                            res))

\* it raised: app.py:1070-1093
Raised(st, what) ==
    Recorded(st, SyncResult(st.files[st.i], "error", what, NoRes))

\* the test that looks at stderr alone
stderr_mentions_certificate(res) == res.cert

\* app.py:944: the attempt is final if res.returncode == 0 or "certificate"
\* not in stderr_lower
certificate_failure(res) == ~(res.returncode = 0 \/ ~res.cert)

\* on to Strategy 3 with res as the last result: its first CA file, or
\* "return res" when no CA path is a file
Strategy3From(st, res, k) ==
    IF NextCa(k) = 0 THEN Returned(st, res)
    ELSE [st EXCEPT !.pc = "s3", !.ca = NextCa(k), !.res = res]

\* the prologue that resolves the database and looks for psql before it
\* looks for the units
sync_schema_database_first ==
    /\ Idle
    /\ \E cred \in CredSamples :
          \/ Stop("sync-schema", cred, <<>>, 0)
          \/ /\ Verify(cred) = "Allow"
             /\ req' = Request("sync-schema", cred, <<>>, 0)
             /\ auth' = "Allow"
             /\ UNCHANGED <<config, ret, calls, sentry, maint, now>>
             /\ LET sql_files == get_sql_files_in_order
                    db_url == build_database_url
                    version == Proc(<< <<"psql">>, <<"--version">> >>,
                                    environ, NoInput)
                IN  IF db_url = <<>>
                    THEN /\ resp' = Json(500, [ok |-> FALSE,
                                               error |-> "Database not configured"])
                         /\ procs' = get_repo_root_procs
                         /\ sync' = SyncIdle
                    ELSE \E psql_available \in BOOLEAN :
                            /\ procs' = Append(get_repo_root_procs, version)
                            /\ IF ~psql_available
                               THEN /\ resp' = Json(500, [ok |-> FALSE,
                                              error |-> "psql not available on server"])
                                    /\ sync' = [SyncIdle EXCEPT
                                                   !.db_url = db_url]
                               ELSE IF sql_files = <<>>
                               THEN /\ resp' = Json(500, [ok |-> FALSE,
                                              error |-> "sync_parts folder not found or empty"])
                                    /\ sync' = [SyncIdle EXCEPT
                                                   !.db_url = db_url]
                               ELSE /\ resp' = Pending
                                    /\ sync' = [SyncIdle EXCEPT
                                                   !.pc = "s1",
                                                   !.files = sql_files,
                                                   !.db_url = db_url,
                                                   !.i = 1]

\* _build_database_url() called on its own
call_build_database_url ==
    /\ Idle
    /\ ret.fn = ""
    /\ ret' = [fn |-> "_build_database_url", arg |-> <<>>,
               value |-> build_database_url]
    /\ UNCHANGED <<config, calls, sentry, maint, now, req, auth, resp, procs, sync>>

\* the prologue of sync_schema, app.py:858-889
sync_schema ==
    /\ Idle
    /\ \E cred \in CredSamples :
          \/ Stop("sync-schema", cred, <<>>, 0)
          \/ /\ Verify(cred) = "Allow"
             /\ req' = Request("sync-schema", cred, <<>>, 0)
             /\ auth' = "Allow"
             /\ UNCHANGED <<config, ret, calls, sentry, maint, now>>
             /\ LET sql_files == get_sql_files_in_order
                    db_url == build_database_url
                    version == Proc(<< <<"psql">>, <<"--version">> >>,
                                    environ, NoInput)
                IN  IF sql_files = <<>>
                    THEN /\ resp' = Json(500, [ok |-> FALSE,
                                   error |-> "sync_parts folder not found or empty"])
                         /\ procs' = get_repo_root_procs
                         /\ sync' = SyncIdle
                    ELSE IF db_url = <<>>
                    THEN /\ resp' = Json(500, [ok |-> FALSE,
                                               error |-> "Database not configured"])
                         /\ procs' = get_repo_root_procs
                         /\ sync' = SyncIdle
                    ELSE \E psql_available \in BOOLEAN :
                            /\ procs' = Append(get_repo_root_procs, version)
                            /\ IF ~psql_available
                               THEN /\ resp' = Json(500, [ok |-> FALSE,
                                              error |-> "psql not available on server"])
                                    /\ sync' = [SyncIdle EXCEPT
                                                   !.db_url = db_url]
                               ELSE /\ resp' = Pending
                                    /\ sync' = [SyncIdle EXCEPT
                                                   !.pc = "s1",
                                                   !.files = sql_files,
                                                   !.db_url = db_url,
                                                   !.i = 1]

\* one psql call of the ladder for the current unit, and how it ended
Attempt(env, end) ==
    Ended(Proc(cmd_modified(sync.db_url, sync.files[sync.i]), env, NoInput),
          end)

\* Strategy 1, app.py:939-945
run_psql_strategy1 ==
    /\ sync.pc = "s1"
    /\ LET env == build_psql_env(<<>>, TRUE)
       IN  \/ \E res \in PsqlRuns("s1", sync.files[sync.i]) :
                 /\ procs' = Append(procs, Attempt(env, ReturnedRes(res)))
                 /\ sync' = IF certificate_failure(res)
                            THEN [sync EXCEPT !.pc = "s2", !.res = res]
                            ELSE Returned(sync, res)
           \/ \E what \in {"Timeout", "exception"} :
                 /\ procs' = Append(procs, Attempt(env, RaisedIn(what)))
                 /\ sync' = Raised(sync, what)
    /\ UNCHANGED <<config, ret, calls, sentry, maint, now, req, auth, resp>>

\* the temporary file that stays behind
unlink_skipped(st) == st

\* os.unlink(ca_temp_file.name) of the finally clause, app.py:973-976
unlink(st) == [st EXCEPT !.tmp = FALSE]

\* Strategy 2, tempfile.NamedTemporaryFile(delete=False), app.py:950
create_ca_temp_file ==
    /\ sync.pc = "s2"
    /\ \/ \* it raises: the outer except passes
          sync' = Strategy3From(sync, sync.res, 1)
       \/ sync' = [sync EXCEPT !.pc = "s2dl", !.tmp = TRUE]
    /\ UNCHANGED <<config, ret, calls, sentry, maint, now, req, auth, resp, procs>>

\* Strategy 2, the download into the temporary file, app.py:952-957
fetch_ca_bundle ==
    /\ sync.pc = "s2dl"
    /\ \/ \* urlopen raises or times out: except passes, finally unlinks
          sync' = Strategy3From(unlink(sync), sync.res, 1)
       \/ sync' = [sync EXCEPT !.pc = "s2run"]
    /\ UNCHANGED <<config, ret, calls, sentry, maint, now, req, auth, resp, procs>>

\* Strategy 2, the psql call and the cleanup, app.py:960-976
run_psql_strategy2 ==
    /\ sync.pc = "s2run"
    /\ LET env == build_psql_env(CA_TEMP_FILE, FALSE)
           st == unlink(sync)
       IN  \/ \E res \in PsqlRuns("s2", sync.files[sync.i]) :
                 /\ procs' = Append(procs, Attempt(env, ReturnedRes(res)))
                 /\ sync' = IF certificate_failure(res)
                            THEN Strategy3From(st, res, 1)
                            ELSE Returned(st, res)
           \/ \* TimeoutExpired or another exception: "except Exception: pass"
              \E what \in {"Timeout", "exception"} :
                 /\ procs' = Append(procs, Attempt(env, RaisedIn(what)))
                 /\ sync' = Strategy3From(st, st.res, 1)
    /\ UNCHANGED <<config, ret, calls, sentry, maint, now, req, auth, resp>>

\* Strategy 3, one CA path that is a file, app.py:989-997
run_psql_strategy3 ==
    /\ sync.pc = "s3"
    /\ LET env == build_psql_env(ca_paths[sync.ca], FALSE)
       IN  \/ \E res \in PsqlRuns("s3", sync.files[sync.i]) :
                 /\ procs' = Append(procs, Attempt(env, ReturnedRes(res)))
                 /\ sync' = IF certificate_failure(res)
                            THEN Strategy3From(sync, res, sync.ca + 1)
                            ELSE Returned(sync, res)
           \/ \E what \in {"Timeout", "exception"} :
                 /\ procs' = Append(procs, Attempt(env, RaisedIn(what)))
                 /\ sync' = Raised(sync, what)
    /\ UNCHANGED <<config, ret, calls, sentry, maint, now, req, auth, resp>>

CountStatus(results, status) ==
    Cardinality({i \in 1..Len(results) : results[i].status = status})

\* the SQL piped to psql, app.py:1129-1133
secret_sql(supa_url, supa_key) ==
    <<"INSERT INTO public.admin_secrets (key, value) VALUES ('SUPABASE_URL', '">>
    \o supa_url \o <<"'), ('SUPABASE_SERVICE_ROLE_KEY', '">> \o supa_key
    \o <<"') ON CONFLICT (key) DO UPDATE SET value = EXCLUDED.value, updated_at = now();">>

\* after the loop: the summary, the post-sync upsert, the response,
\* app.py:1095-1168
sync_summary ==
    /\ sync.pc = "summary"
    /\ LET results == sync.results
           success_count == CountStatus(results, "success")
           error_count == CountStatus(results, "error")
           supa_url == Or(Env("SUPABASE_URL"), Env("VITE_SUPABASE_URL"))
           supa_key == Env("SUPABASE_SERVICE_ROLE_KEY")
           upsert == Proc(<< <<"psql">>, sync.db_url, <<"-q">>, <<"-f">>, <<"-">> >>,
                          sync_psql_env, secret_sql(supa_url, supa_key))
           failed == <<"Failed to update admin_secrets: ">>
           Ok(warnings) ==
               Json(200, [ok |-> TRUE, results |-> results,
                          totalFiles |-> Len(sync.files),
                          successCount |-> success_count, errorCount |-> 0,
                          failedFile |-> <<>>,
                          warnings |-> Take(warnings, WARNINGS_LIMIT)])
       IN  IF sync.has_any_error
           THEN /\ resp' = Json(500, [ok |-> FALSE, results |-> results,
                                      totalFiles |-> Len(sync.files),
                                      successCount |-> success_count,
                                      errorCount |-> error_count,
                                      failedFile |-> sync.failed_file,
                                      warnings |-> Take(sync.all_warnings,
                                                        WARNINGS_LIMIT)])
                /\ procs' = procs
           ELSE IF supa_url # <<>> /\ supa_key # <<>>
           THEN \E out \in {"ok", "fail", "oserror"} :
                   /\ procs' = Append(procs, Ended(upsert, RunEndOf(out)))
                   /\ resp' = Ok(IF out = "ok" THEN sync.all_warnings
                                 ELSE Append(sync.all_warnings, failed))
           ELSE /\ procs' = procs
                /\ resp' = Ok(sync.all_warnings)
    /\ sync' = [SyncIdle EXCEPT !.db_url = sync.db_url]
    /\ UNCHANGED <<config, ret, calls, sentry, maint, now, req, auth>>

-----------------------------------------------------------------------------
(* The gate on its own: any handler's first statement, _verify_request(),   *)
(* on every request of the bounded input sets.                              *)

Proceeds == [status |-> 200, body |-> [proceeds |-> TRUE]]

BodyBytes == {"a", "b"}
Bodies == SeqsUpTo(BodyBytes, MaxBodyLen)

KeySamples == { <<>>, CHANGE_ME, <<"a", "b">> }

SignatureInputs ==
    {<<>>} \cup {hmac_hexdigest(k, b) : k \in KeySamples, b \in Bodies}

TokenInputs == { <<>>, <<"t">>, <<"x">>, <<"t", NonAsciiChar>> }

\* what a byte of the signature header can be changed to
SignatureChars == Range(HexDigits) \cup {"A", NonAsciiChar}

Gate(cred) ==
    /\ req' = Request("verify", cred, <<>>, 0)
    /\ auth' = Verify(cred)
    /\ resp' = IF Verify(cred) = "Allow" THEN Proceeds ELSE Refused(Verify(cred))
    /\ procs' = <<>>
    /\ UNCHANGED <<config, ret, calls, sentry, maint, now, sync>>

\* a request arrives
receive ==
    /\ Idle
    /\ \E sig \in SignatureInputs, token \in TokenInputs, body \in Bodies :
          Gate(Cred(sig, token, body))

\* the request just let through on its signature is sent again with one
\* byte of the signature header changed
tamper_signature ==
    /\ auth = "Allow"
    /\ req.sig # <<>>
    /\ \E i \in 1..Len(req.sig) : \E c \in SignatureChars \ {req.sig[i]} :
          Gate(Cred([req.sig EXCEPT ![i] = c], req.token, req.body))

\* ... with one byte of the body changed
tamper_body ==
    /\ auth = "Allow"
    /\ req.sig # <<>>
    /\ \E i \in 1..Len(req.body) : \E c \in (BodyBytes \cup {"c"}) \ {req.body[i]} :
          Gate(Cred(req.sig, req.token, [req.body EXCEPT ![i] = c]))

-----------------------------------------------------------------------------
(* Initial states. *)

DEFAULT_ALLOWED_SERVICES_RAW ==
    << <<"nginx">>, <<"plant-swipe-node">>, <<"admin-api">> >>

DATABASE_PASSWORD == <<"s", "3">>

\* a host that is not local
DB_HOST == <<"db.example.com">>

CaFiles == {ca_paths[i][1] : i \in 1..Len(ca_paths)}
ScriptFiles ==
    { "/scripts/refresh-plant-swipe.sh", "/scripts/deploy-supabase-functions.sh",
      "/setup.sh", "/scripts/generate-sitemap-daily.sh" }
AllFiles == ScriptFiles \cup CaFiles

\* the state after the module is loaded with ADMIN_BUTTON_SECRET = secret
\* (or Unset), ADMIN_STATIC_TOKEN = token, ADMIN_ALLOWED_SERVICES = raw,
\* the environment env and the files f
Loaded(secret, token, raw, env, f) ==
    /\ APP_SECRET = get_env_var(secret, CHANGE_ME)
    /\ ADMIN_STATIC_TOKEN = token
    /\ ALLOWED_SERVICES_RAW = raw
    /\ ALLOWED_SERVICES = parse_allowed_services(raw)
    /\ DEFAULT_SERVICE = <<"plant-swipe-node">>
    /\ environ = env
    /\ fs = f
    /\ maint = NoFile
    /\ calls = NoCalls
    /\ sentry = NoDecision
    /\ ret = NoReturn
    /\ now = 0
    /\ req = NoRequest
    /\ auth = "None"
    /\ resp = NoResponse
    /\ procs = <<>>
    /\ sync = SyncIdle

Files(files, is_dir, listing) ==
    [files |-> files, sync_parts_is_dir |-> is_dir, sync_parts |-> listing,
     noisy |-> {}]

\* environments: the database given as one URL, as PG* pieces, as a project
\* URL with a password, and not at all
EnvUrl ==
    [DATABASE_URL |-> pg_url(<<"u">>, DATABASE_PASSWORD, DB_HOST),
     PLANTSWIPE_REPO_DIR |-> <<"/srv/repo">>,
     SUPABASE_URL |-> <<"https://", "r", ".supabase.co">>,
     SUPABASE_SERVICE_ROLE_KEY |-> <<"k", "'", "y">>,
     PGSSLMODE |-> <<"verify-full">>]
EnvPieces ==
    [PGHOST |-> DB_HOST, PGUSER |-> <<"u">>, PGPASSWORD |-> DATABASE_PASSWORD,
     PLANTSWIPE_REPO_DIR |-> <<"/srv/repo">>]
EnvSupabase ==
    [SUPABASE_URL |-> <<"https://", "r", ".supabase.co">>,
     SUPABASE_DB_PASSWORD |-> DATABASE_PASSWORD,
     SSL_CERT_FILE |-> <<"/etc/ssl/cert.pem">>]
EnvNone == [CI |-> <<"false">>]
\* a server started with a target branch and a restart switch of its own
EnvOwnBranch ==
    [PLANTSWIPE_TARGET_BRANCH |-> <<"s">>, SKIP_SERVICE_RESTARTS |-> <<"false">>]

\* the names found in the sync_parts directory: up to MaxUnits of the .sql
\* names, next to a file that is no sync unit
SqlPool ==
    { <<"1", "0", ".sql">>, <<"2", ".sql">>, <<"B", ".sql">>, <<"a", ".sql">> }
UnitPool == SqlPool \cup { <<"a", ".md">> }
Listings ==
    {S \cup { <<"a", ".md">> } : S \in {T \in SUBSET SqlPool : Cardinality(T) <= MaxUnits}}

\* what the scripts of the routes write: nothing, and a line on each stream
ScriptOutputs ==
    { Captured(<<>>, <<>>), Captured(<<"a", "LF">>, <<"e", "LF">>) }

OneUnit == Files(ScriptFiles \cup {ca_paths[1][1]}, TRUE, {<<"1", ".sql">>})

\* the HTTP surface: every route, a few configurations
Init ==
    \E secret \in {Unset, <<"a", "b">>}, token \in { <<>>, <<"t">> },
       raw \in { DEFAULT_ALLOWED_SERVICES_RAW,
                 << <<"SP", "nginx">>, <<>>, <<"sshd", ".service">> >> },
       site \in { <<EnvUrl, OneUnit>>,
                  <<EnvNone, Files({}, FALSE, {})>> } :
        Loaded(secret, token, raw, site[1], site[2])

Next ==
    \/ list_branches
    \/ admin_refresh_stream(BranchSamples)
    \/ admin_refresh(BranchSamples)
    \/ admin_deploy_edge_functions(ScriptOutputs)
    \/ get_maintenance_mode({now})
    \/ enable_maintenance_mode({now})
    \/ disable_maintenance_mode
    \/ restart_app
    \/ reload_nginx
    \/ reboot
    \/ sync_schema
    \/ run_psql_strategy1
    \/ create_ca_temp_file
    \/ fetch_ca_bundle
    \/ run_psql_strategy2
    \/ run_psql_strategy3
    \/ sync_summary
    \/ run_setup
    \/ clear_memory
    \/ restart_server_with_password
    \/ git_pull_stream
    \/ git_pull(ScriptOutputs)
    \/ regenerate_sitemap(ScriptOutputs)
    \/ teardown

Spec == Init /\ [][Next]_vars

\* the gate alone, every configuration of the two credentials
AuthInit ==
    \E secret \in {Unset, <<>>, <<"a", "b">>},
       token \in { <<>>, <<"t">>, <<"t", NonAsciiChar>> } :
        Loaded(secret, token, DEFAULT_ALLOWED_SERVICES_RAW, EnvNone,
               Files({}, FALSE, {}))

AuthNext == receive \/ tamper_signature \/ tamper_body \/ teardown

AuthSpec == AuthInit /\ [][AuthNext]_vars

\* the pull-code routes on every branch parameter
PullInit ==
    \E f \in { Files(AllFiles, FALSE, {}), Files({}, FALSE, {}) },
       env \in { EnvNone, EnvOwnBranch } :
        Loaded(Unset, <<"t">>, DEFAULT_ALLOWED_SERVICES_RAW, env, f)

PullNext ==
    \/ admin_refresh_stream(BranchInputs)
    \/ admin_refresh(BranchInputs)
    \/ teardown

PullSpec == PullInit /\ [][PullNext]_vars

\* _validate_branch_name on every string of branch characters
BranchNext ==
    \/ call_validate_branch_name(BranchInputs)
    \/ helper_returned

BranchSpec == PullInit /\ [][BranchNext]_vars

\* schema sync on every directory listing and database configuration
\* a unit whose script raises WARNINGS_LIMIT notices
NoisyUnits == { <<"2", ".sql">> }

SyncInit ==
    \E site \in
          { <<EnvUrl, Files(ScriptFiles, TRUE, S)>> :
                S \in Listings }
          \cup
          { <<e, Files({ca_paths[2][1], ca_paths[4][1]}, TRUE,
                       {<<"2", ".sql">>, <<"1", "0", ".sql">>})>> :
                e \in {EnvUrl, EnvPieces, EnvSupabase, EnvNone} }
          \cup
          { <<EnvPieces, Files({ca_paths[1][1]}, FALSE, UnitPool)>>,
            <<EnvUrl, [Files(ScriptFiles, TRUE, NoisyUnits) EXCEPT
                          !.noisy = NoisyUnits]>> } :
        Loaded(Unset, <<"t">>, DEFAULT_ALLOWED_SERVICES_RAW, site[1], site[2])

SyncNext ==
    \/ sync_schema
    \/ run_psql_strategy1
    \/ create_ca_temp_file
    \/ fetch_ca_bundle
    \/ run_psql_strategy2
    \/ run_psql_strategy3
    \/ sync_summary
    \/ teardown

SyncSpec == SyncInit /\ [][SyncNext]_vars

\* the maintenance routes, the error reporter and the clock
MaintInit ==
    Loaded(<<"a", "b">>, <<"t">>, DEFAULT_ALLOWED_SERVICES_RAW, EnvNone,
           Files({}, FALSE, {}))

MaintNext ==
    \/ get_maintenance_mode(Later)
    \/ enable_maintenance_mode(Later)
    \/ disable_maintenance_mode
    \/ sentry_before_send({<<>>})
    \/ sentry_returned
    \/ Tick
    \/ teardown

MaintSpec == MaintInit /\ [][MaintNext]_vars

\* the error reporter alone, handed events whose exception value holds a
\* password, an e-mail address or a bearer token
PasswordKeys ==
    { PASSWORD_WORD,
      <<"P", "a", "s", "s", "w", "o", "r", "d">>,
      <<"P", "A", "S", "S", "W", "O", "R", "D">> }

SecretValues ==
    { <<"s", "e", "c", "r", "e", "t">>, <<"h", "u", "n", "t", "e", "r", "2">> }

\* key=value, key:value and "key": "value"
KeyEqualsValue(key, v) == key \o <<"=">> \o v
KeyColonValue(key, v) == key \o <<":">> \o v
JsonKeyValue(key, v) ==
    <<"\"">> \o key \o <<"\"", ":", "SP", "\"">> \o v \o <<"\"">>

PasswordTexts ==
    { pre \o body \o post :
        pre \in { <<>>, <<"{">>, <<"u", "=", "1", "&">> },
        body \in UNION { { KeyEqualsValue(key, v), KeyColonValue(key, v),
                           JsonKeyValue(key, v) } :
                         key \in PasswordKeys, v \in SecretValues },
        post \in { <<>>, <<"}">>, <<"&", "n", "=", "2">> } }

OtherTexts ==
    { <<>>,
      <<"b", "o", "o", "m">>,
      <<"t", "o", "SP", "a", ".", "b", "@", "x", ".", "c", "o", ".", "u", "k">>,
      <<"a", "@", "b">>,
      BEARER_WORD \o <<"SP", "a", "b", "c", ".", "d", "-", "e">>,
      PASSWORD_WORD \o <<"=", "m", "e", "@", "x", ".", "i", "o">> }

ScrubInputs == PasswordTexts \cup OtherTexts

ScrubNext ==
    \/ sentry_before_send(ScrubInputs)
    \/ sentry_returned

ScrubSpec == MaintInit /\ [][ScrubNext]_vars

\* two enable calls and a disable call running side by side, with and
\* without a record in the file at the start
ConcDurations == {60000, 300000}

ConcInit ==
    /\ APP_SECRET = <<"a", "b">>
    /\ ADMIN_STATIC_TOKEN = <<"t">>
    /\ ALLOWED_SERVICES_RAW = DEFAULT_ALLOWED_SERVICES_RAW
    /\ ALLOWED_SERVICES = parse_allowed_services(DEFAULT_ALLOWED_SERVICES_RAW)
    /\ DEFAULT_SERVICE = <<"plant-swipe-node">>
    /\ environ = EnvNone
    /\ fs = Files({}, FALSE, {})
    /\ maint \in {NoFile, FileWith(json_dump(Record(0, 60000, <<"b">>)))}
    /\ \E d1 \in ConcDurations, d2 \in ConcDurations :
       \E r1 \in ReasonInputs, r2 \in ReasonInputs :
          calls = << EnableCall(d1, r1), EnableCall(d2, r2), DisableCall >>
    /\ sentry = NoDecision
    /\ ret = NoReturn
    /\ now = 0
    /\ req = NoRequest
    /\ auth = "None"
    /\ resp = NoResponse
    /\ procs = <<>>
    /\ sync = SyncIdle

ConcNext ==
    \/ \E i \in 1..Len(calls) : enable_open(i)
    \/ \E i \in 1..Len(calls) : enable_write(i)
    \/ \E i \in 1..Len(calls) : disable_exists(i)
    \/ \E i \in 1..Len(calls) : disable_unlink(i)

ConcSpec == ConcInit /\ [][ConcNext]_vars

-----------------------------------------------------------------------------
(* Properties of the gate and of the handlers behind it. *)

\* C1: on every /admin/* endpoint a request the gate denies is answered with
\* the unauthorized response, and from its arrival to its teardown no
\* process is spawned for it and the maintenance record stays as it was.
DeniedRequestDoesNothing ==
    [][ (auth = "Deny" \/ auth' = "Deny") =>
            /\ procs' = <<>>
            /\ maint' = maint
            /\ (auth' = "Deny" => resp' = unauthorized_handler) ]_vars

\* a denied enable request while a maintenance record exists
DeniedEnableReached ==
    /\ auth = "Deny"
    /\ req.endpoint = "maintenance-mode/enable"
    /\ maint.exists
    /\ resp.status = 401

\* a database-client process that takes its SQL from a file or from stdin
IsPsqlRun(p) ==
    /\ Len(p.argv) > 2
    /\ p.argv[1] = <<"psql">>

\* C2: in a schema-sync run no argument of a database-client process holds
\* the database password, which is handed over as PGPASSWORD in the
\* environment of the process.
PasswordOnlyInEnvironment ==
    \A i \in 1..Len(procs) :
        IsPsqlRun(procs[i]) =>
            /\ \A j \in 1..Len(procs[i].argv) :
                  ~Contains(procs[i].argv[j], DATABASE_PASSWORD)
            /\ "PGPASSWORD" \in DOMAIN procs[i].env
            /\ procs[i].env["PGPASSWORD"] = DATABASE_PASSWORD

\* the post-sync upsert is spawned with the password in its argument list
PasswordInUpsertArgv ==
    \E i \in 1..Len(procs) :
        /\ IsPsqlRun(procs[i])
        /\ procs[i].input # NoInput
        /\ \E j \in 1..Len(procs[i].argv) :
              Contains(procs[i].argv[j], DATABASE_PASSWORD)
        /\ "PGPASSWORD" \notin DOMAIN procs[i].env

\* the number of places two strings of one length differ at
Differences(a, b) == Cardinality({i \in 1..Len(a) : a[i] # b[i]})

\* sig is the signature of body with one byte changed
SignatureOneByteOff(sig, body) ==
    /\ Len(sig) = Len(hmac_hexdigest(APP_SECRET, body))
    /\ Differences(sig, hmac_hexdigest(APP_SECRET, body)) = 1

\* body is the signed body with one byte changed
BodyOneByteOff(sig, body) ==
    \E i \in 1..Len(body) : \E c \in (BodyBytes \cup {"c"}) \ {body[i]} :
        sig = hmac_hexdigest(APP_SECRET, [body EXCEPT ![i] = c])

\* C3: with a secret configured, a request signed with the keyed hash of
\* its exact body is allowed,
\* and the same request with one byte of the body or of the signature
\* changed is denied.
SignedAllowedTamperedDenied ==
    (req.endpoint = "verify" /\ req.sig # <<>> /\ APP_SECRET # <<>>) =>
        /\ req.sig = hmac_hexdigest(APP_SECRET, req.body) => auth = "Allow"
        /\ SignatureOneByteOff(req.sig, req.body) => auth = "Deny"
        /\ BodyOneByteOff(req.sig, req.body) => auth = "Deny"

\* one byte of a valid signature was changed to a non-ASCII byte, and the
\* request ended in the error response
TamperedSignatureErrors ==
    /\ req.endpoint = "verify"
    /\ SignatureOneByteOff(req.sig, req.body)
    /\ ~IsAscii(req.sig)
    /\ APP_SECRET # <<>>
    /\ auth = "Error"
    /\ resp = internal_error_handler

\* C4: with a secret configured, a request with a signature header that
\* does not match is denied,
\* whatever static token it carries: Path B is not consulted.
MismatchedSignatureDenied ==
    (/\ req.endpoint = "verify"
     /\ APP_SECRET # <<>>
     /\ req.sig # <<>>
     /\ req.sig # hmac_hexdigest(APP_SECRET, req.body)) => auth = "Deny"

\* a mismatching signature next to the right static token, not denied
MismatchWithTokenErrors ==
    /\ req.endpoint = "verify"
    /\ req.sig # <<>>
    /\ req.sig # hmac_hexdigest(APP_SECRET, req.body)
    /\ ADMIN_STATIC_TOKEN # <<>>
    /\ req.token = ADMIN_STATIC_TOKEN
    /\ auth = "Error"

\* C5: without a signature header a request is allowed exactly when the
\* configured static token is not empty and the supplied token equals it.
StaticTokenAllowedIffEqual ==
    (req.endpoint = "verify" /\ req.sig = <<>>) =>
        (auth = "Allow" <=>
            (ADMIN_STATIC_TOKEN # <<>> /\ req.token = ADMIN_STATIC_TOKEN))

\* the configured token, supplied as it is, is not allowed
RightTokenErrors ==
    /\ req.endpoint = "verify"
    /\ req.sig = <<>>
    /\ ADMIN_STATIC_TOKEN # <<>>
    /\ req.token = ADMIN_STATIC_TOKEN
    /\ auth = "Error"

\* the rejection rules as the specification words them
BadBranch(name) ==
    \/ StartsWith(name, <<"-">>)
    \/ Contains(name, <<".", ".">>)
    \/ Contains(name, <<"/", "/">>)
    \/ \E i \in 1..Len(name) : name[i] \notin SafeChars

PullCodeLetThrough ==
    req.endpoint \in {"pull-code", "pull-code/stream"} /\ auth = "Allow"

RefreshSpawned(env) ==
    \E i \in 1..Len(procs) :
        procs[i].argv = <<refresh_script_path>> /\ procs[i].env = env

\* C6 as stated: a pull-code request whose branch input breaks a rule gets
\* 400 and spawns nothing, and every other input runs the refresh script.
BranchInputRejectedOrRun ==
    PullCodeLetThrough =>
        IF BadBranch(req.arg)
        THEN resp.status = 400 /\ procs = <<>>
        ELSE \E i \in 1..Len(procs) : procs[i].argv = <<refresh_script_path>>

\* C6 amended: the rules apply to the branch input with the whitespace at
\* its ends removed.  A trimmed value that breaks a rule gets 400 and no
\* process; any other (the empty one too) runs the refresh script where the
\* script is a file, handing it the trimmed value as PLANTSWIPE_TARGET_BRANCH
\* if it is not empty, and gets 500 without running it where it is not.
TrimmedBranchRejectedOrRun ==
    PullCodeLetThrough =>
        LET branch == strip(req.arg)
        IN  IF BadBranch(branch)
            THEN resp.status = 400 /\ procs = <<>>
            ELSE IF isfile(refresh_script_path)
            THEN /\ RefreshSpawned(refresh_env(branch))
                 /\ branch # <<>> =>
                       \A i \in 1..Len(procs) :
                           procs[i].argv = <<refresh_script_path>> =>
                               procs[i].env["PLANTSWIPE_TARGET_BRANCH"] = branch
            ELSE /\ resp.status = 500
                 /\ \A i \in 1..Len(procs) :
                       procs[i].argv # <<refresh_script_path>>

\* an input that breaks a rule only after trimming is rejected
TrimmedDashRejected ==
    /\ PullCodeLetThrough
    /\ req.arg = <<"SP", "-", "m">>
    /\ resp.status = 400
    /\ procs = <<>>

\* a process that restarts a service, and the service
IsRestart(p) ==
    /\ p.argv[1] = <<"sudo">>
    /\ p.argv[Len(p.argv) - 1] = <<"restart">>
RestartedService(p) == p.argv[Len(p.argv)]

\* C7: no process restarts a service outside the Allowed Service Set.
RestartsOnlyAllowedServices ==
    \A i \in 1..Len(procs) :
        IsRestart(procs[i]) => is_service_allowed(RestartedService(procs[i]))

\* restart-server restarts a service the configuration does not allow
RestartServerOutsideAllowed ==
    /\ req.endpoint = "restart-server"
    /\ \E i \in 1..Len(procs) :
          /\ IsRestart(procs[i])
          /\ RestartedService(procs[i]) = <<"admin-api">>
          /\ ~is_service_allowed(<<"admin-api">>)

-----------------------------------------------------------------------------
(* Properties of the schema-sync run. *)

\* a psql call for a sync unit, and the unit
IsUnitRun(p) ==
    /\ IsPsqlRun(p)
    /\ p.input = NoInput
    /\ p.argv[Len(p.argv) - 1] = <<"-f">>
UnitOf(p) ==
    SubSeq(p.argv[Len(p.argv)], Len(sync_parts_dir) + 2, Len(p.argv[Len(p.argv)]))

Executed(unit) ==
    \E i \in 1..Len(procs) : IsUnitRun(procs[i]) /\ UnitOf(procs[i]) = unit

\* the run went through its loop and answered with the summary
SummaryAnswered ==
    /\ req.endpoint = "sync-schema"
    /\ "totalFiles" \in DOMAIN resp.body

FailedAt(results) == {i \in 1..Len(results) : results[i].status = "error"}

\* the units of the sync_parts directory, ascending by name
UnitsAscending(units) ==
    /\ Range(units) = {f \in fs.sync_parts : has_sql_suffix(f)}
    /\ \A i, j \in 1..Len(units) : i < j => StrLess(units[i], units[j])

\* C8: a run that reaches its summary has attempted every sync unit once,
\* also after a failure: one result per unit, and successCount + errorCount
\* = totalFiles, errorCount = the number of failed units, the reported
\* failed unit is the first that failed, and ok is false exactly when one
\* failed.
EveryUnitAttemptedAndCounted ==
    SummaryAnswered =>
        LET b == resp.body
            failed == FailedAt(b.results)
        IN  /\ UnitsAscending([i \in 1..Len(b.results) |-> b.results[i].file])
            /\ \A i \in 1..Len(b.results) : Executed(b.results[i].file)
            /\ b.totalFiles = Len(b.results)
            /\ b.successCount + b.errorCount = b.totalFiles
            /\ b.errorCount = Cardinality(failed)
            /\ b.ok = (failed = {})
            /\ resp.status = (IF failed = {} THEN 200 ELSE 500)
            /\ failed # {} =>
                  \E k \in failed :
                      /\ \A l \in failed : k <= l
                      /\ b.failedFile = b.results[k].file

\* a summary of three units of which the second and the third failed
TwoOfThreeFailed ==
    /\ SummaryAnswered
    /\ Len(resp.body.results) = 3
    /\ FailedAt(resp.body.results) = {2, 3}
    /\ resp.body.failedFile = resp.body.results[2].file

\* the units of the run in hand, and its results so far
RunUnits == IF sync.pc = "idle" THEN <<>> ELSE sync.files

\* C9 as stated: once a unit has failed, no later unit is executed.
NoUnitRunsAfterFailure ==
    \A k \in 1..Len(sync.results) :
        sync.results[k].status = "error" =>
            \A j \in (k + 1)..Len(RunUnits) : ~Executed(RunUnits[j])

\* C9 amended: a failed unit does not end the run.  Every later unit is
\* still executed, whatever the request asks for, and the summary lists a
\* result for each of them.
LaterUnitsRunAfterFailure ==
    SummaryAnswered =>
        LET units == get_sql_files_in_order
            results == resp.body.results
        IN  \A k \in 1..Len(results) :
                results[k].status = "error" =>
                    \A j \in (k + 1)..Len(units) :
                        /\ Executed(units[j])
                        /\ j <= Len(results)
                        /\ results[j].file = units[j]

\* the first unit failed and the second was applied
SecondAppliedAfterFirstFailed ==
    /\ SummaryAnswered
    /\ Len(resp.body.results) >= 2
    /\ resp.body.results[1].status = "error"
    /\ resp.body.results[2].status = "success"
    /\ Executed(resp.body.results[2].file)

\* the results the run or its answer has
ResultsSoFar ==
    IF SummaryAnswered THEN resp.body.results ELSE sync.results

\* C10: the psql calls of a run are in ascending order of their units'
\* names (no call for a unit follows a call for a unit of a greater name,
\* so each call for a unit comes before every call for a greater one), and
\* the results are listed in that order.
UnitsRunInSortedOrder ==
    /\ LET runs == SelectSeq(procs, IsUnitRun)
       IN  \A i \in 1..(Len(runs) - 1) :
               ~StrLess(UnitOf(runs[i + 1]), UnitOf(runs[i]))
    /\ \A i, j \in 1..Len(ResultsSoFar) :
          i < j => StrLess(ResultsSoFar[i].file, ResultsSoFar[j].file)

\* 10.sql ran before 2.sql, and B.sql before a.sql
CodePointOrderReached ==
    /\ SummaryAnswered
    /\ \E i, j, k \in 1..Len(procs) :
          /\ i < j /\ j < k
          /\ IsUnitRun(procs[i]) /\ UnitOf(procs[i]) = <<"1", "0", ".sql">>
          /\ IsUnitRun(procs[j]) /\ UnitOf(procs[j]) = <<"2", ".sql">>
          /\ IsUnitRun(procs[k]) /\ UnitOf(procs[k]) = <<"B", ".sql">>

\* a call of the database client
IsPsqlCall(p) == p.argv # <<>> /\ p.argv[1] = <<"psql">>

SyncAllowed == req # NoRequest /\ req.endpoint = "sync-schema" /\ auth = "Allow"

UnitsMissing ==
    Json(500, [ok |-> FALSE, error |-> "sync_parts folder not found or empty"])

DatabaseNotConfigured ==
    Json(500, [ok |-> FALSE, error |-> "Database not configured"])

\* C11: a sync-schema request that finds the sync_parts directory missing or
\* without a unit is answered 500 with ok false, no psql process is spawned
\* for it and no database URL is resolved; one that finds units but no
\* source of a database URL is answered 500 with ok false before any psql
\* process is spawned, so that no unit is executed.
SyncFailsFastWithoutUnitsOrDatabase ==
    SyncAllowed =>
       /\ get_sql_files_in_order = <<>> =>
             /\ resp = UnitsMissing
             /\ sync.db_url = <<>>
             /\ \A i \in 1..Len(procs) : ~IsPsqlCall(procs[i])
       /\ get_sql_files_in_order # <<>> /\ build_database_url = <<>> =>
             /\ resp = DatabaseNotConfigured
             /\ \A i \in 1..Len(procs) : ~IsPsqlCall(procs[i])

\* the directory is missing on a site whose database URL would resolve
UnitsMissingWithDatabase ==
    /\ SyncAllowed
    /\ resp = UnitsMissing
    /\ ~fs.sync_parts_is_dir
    /\ build_database_url # <<>>

\* the post-sync upsert of the secrets, app.py:1135-1146
IsUpsert(p) == IsPsqlCall(p) /\ p.input # NoInput

UpsertFailed ==
    \E i \in 1..Len(procs) :
        IsUpsert(procs[i]) /\ procs[i].end # Exited(<<>>, 0, FALSE)

IsUpsertWarning(w) == StartsWith(w, <<"Failed to update admin_secrets: ">>)

\* C12: the post-sync upsert is run only after every unit succeeded, and
\* when it fails (non-zero exit or exception) the response is still 200 with
\* ok true and lists the failure among its warnings.
UpsertFailureIsOnlyAWarning ==
    /\ (\E i \in 1..Len(procs) : IsUpsert(procs[i])) =>
          /\ Len(sync.results) = Len(sync.files) \/ SummaryAnswered
          /\ \A k \in 1..Len(ResultsSoFar) : ResultsSoFar[k].status = "success"
    /\ (SummaryAnswered /\ UpsertFailed) =>
          /\ resp.status = 200
          /\ resp.body.ok
          /\ \E k \in 1..Len(resp.body.warnings) :
                IsUpsertWarning(resp.body.warnings[k])

\* the upsert failed and the answer, ok true, has WARNINGS_LIMIT warnings of
\* the units and none of the upsert
UpsertWarningCutOff ==
    /\ SummaryAnswered
    /\ UpsertFailed
    /\ resp.body.ok
    /\ Len(resp.body.warnings) = WARNINGS_LIMIT
    /\ \A k \in 1..Len(resp.body.warnings) :
          ~IsUpsertWarning(resp.body.warnings[k])

RECURSIVE DoubledQuotes(_)
\* s with every single quote written twice
DoubledQuotes(s) ==
    IF s = <<>> THEN <<>>
    ELSE (IF Head(s) = "'" THEN <<"'", "'">> ELSE <<Head(s)>>)
         \o DoubledQuotes(Tail(s))

SupaUrl == Or(Env("SUPABASE_URL"), Env("VITE_SUPABASE_URL"))
SupaKey == Env("SUPABASE_SERVICE_ROLE_KEY")

\* C13: the SQL piped to the post-sync upsert holds the values of
\* SUPABASE_URL and SUPABASE_SERVICE_ROLE_KEY with every single quote
\* doubled, so that a quote in a value cannot end its string literal.
UpsertValuesHaveQuotesDoubled ==
    \A i \in 1..Len(procs) :
        IsUpsert(procs[i]) =>
            procs[i].input =
                secret_sql(DoubledQuotes(SupaUrl), DoubledQuotes(SupaKey))

\* the key holds a quote and reaches psql as it is
UpsertValueQuoteUndoubled ==
    \E i \in 1..Len(procs) :
        /\ IsUpsert(procs[i])
        /\ "'" \in Range(SupaKey)
        /\ procs[i].input = secret_sql(SupaUrl, SupaKey)
        /\ procs[i].input # secret_sql(SupaUrl, DoubledQuotes(SupaKey))

\* the psql call ended with a non-zero exit code and "certificate" in stderr
EndedOnCertificate(p) ==
    /\ p.end.how = "returned"
    /\ p.end.res.returncode # 0
    /\ p.end.res.cert

\* the unit of each psql call of procs, <<>> for the other processes
AttemptUnits ==
    [i \in 1..Len(procs) |->
        IF IsUnitRun(procs[i]) THEN UnitOf(procs[i]) ELSE <<>>]

\* the indices of the first psql call for each unit
FirstAttempts(units) ==
    {j \in 1..Len(units) :
        units[j] # <<>> /\ \A l \in 1..(j - 1) : units[l] # units[j]}

InLadder == sync.pc \in {"s2", "s2dl", "s2run", "s3"}

\* the entry of results is what the call that ended as end gives
ResultOf(entry, end) ==
    IF end.how = "returned"
    THEN /\ entry.res = end.res
         /\ entry.status = "error" <=> file_has_error(end.res)
    ELSE /\ entry.status = "error"
         /\ entry.error = end.what

\* C14: a unit gets a second psql call, or any step of the fallback ladder,
\* only when its first psql call ended with a non-zero exit code and
\* "certificate" in stderr; every other unit has exactly one psql call and
\* the result recorded for it is the result of that call.
LadderOnlyAfterCertificateFailure ==
    LET units == AttemptUnits
        firsts == FirstAttempts(units)
        results == ResultsSoFar
    IN  /\ \A j \in firsts :
              (\E i \in (j + 1)..Len(units) : units[i] = units[j])
                 => EndedOnCertificate(procs[j])
        /\ InLadder =>
              \E j \in firsts :
                 /\ units[j] = sync.files[sync.i]
                 /\ EndedOnCertificate(procs[j])
        /\ \A k \in 1..Len(results) :
              \E j \in firsts :
                 /\ units[j] = results[k].file
                 /\ ~EndedOnCertificate(procs[j]) =>
                       ResultOf(results[k], procs[j].end)

\* a unit whose only psql call exited with code 1 on an SQL error, recorded
\* as failed, next to a unit that went through the ladder
SingleAttemptRecordedBesideLadder ==
    /\ SummaryAnswered
    /\ LET units == AttemptUnits
       IN  /\ \E j \in FirstAttempts(units) :
                 /\ ~EndedOnCertificate(procs[j])
                 /\ procs[j].end.how = "returned"
                 /\ procs[j].end.res.returncode = 1
                 /\ \A i \in (j + 1)..Len(units) : units[i] # units[j]
           /\ \E i \in 1..Len(units) :
                 units[i] # <<>> /\ i \notin FirstAttempts(units)

\* the place of a psql call in the ladder, from the root certificate of its
\* environment: 0 for the nonexistent one, 1 for the fetched bundle, 1 + k
\* for the k-th system path
LadderRank(p) ==
    LET cert == p.env["PGSSLROOTCERT"]
    IN  IF cert = NONEXISTENT_ROOT_CERT THEN 0
        ELSE IF cert = CA_TEMP_FILE THEN 1
        ELSE 1 + CHOOSE k \in 1..Len(ca_paths) : ca_paths[k] = cert

\* the psql calls of each unit come in the order of the ladder, and no
\* system path that is a file is passed over between two of them
AttemptsInLadderOrder ==
    LET units == AttemptUnits
    IN  /\ \A j \in FirstAttempts(units) : LadderRank(procs[j]) = 0
        /\ \A i \in 1..(Len(units) - 1) :
              (units[i] # <<>> /\ units[i + 1] = units[i]) =>
                 LET r == LadderRank(procs[i])
                     n == LadderRank(procs[i + 1])
                 IN  /\ r < n
                     /\ n > 1 => isfile(ca_paths[n - 1])
                     /\ \A k \in 1..Len(ca_paths) :
                           (r < 1 + k /\ 1 + k < n) => ~isfile(ca_paths[k])

\* C15: the psql calls of a unit are made in the order nonexistent root
\* certificate, fetched bundle, each system path that is a file in list
\* order, and a call is followed by another call for the same unit only if
\* it ended in a certificate failure: the ladder stops at the first call
\* that ends in any other way.
LadderStopsAtFirstOtherOutcome ==
    LET units == AttemptUnits
    IN  /\ AttemptsInLadderOrder
        /\ \A i \in 1..(Len(units) - 1) :
              (units[i] # <<>> /\ units[i + 1] = units[i]) =>
                 EndedOnCertificate(procs[i])

\* the call with the fetched bundle timed out and a call with a system path
\* follows it for the same unit
SystemPathTriedAfterTimeout ==
    LET units == AttemptUnits
    IN  \E i \in 1..(Len(units) - 1) :
           /\ units[i] # <<>>
           /\ units[i + 1] = units[i]
           /\ LadderRank(procs[i]) = 1
           /\ procs[i].end = RaisedIn("Timeout")
           /\ LadderRank(procs[i + 1]) > 1

\* the ladder ran out of strategies for the unit of entry: what it returned
\* is still a certificate failure
Exhausted(entry) ==
    /\ entry.res # NoRes
    /\ entry.res.returncode # 0
    /\ entry.res.cert

\* the index of the last psql call for unit
LastAttempt(units, unit) ==
    CHOOSE i \in 1..Len(units) :
        units[i] = unit /\ \A l \in (i + 1)..Len(units) : units[l] # unit

\* C16: when the ladder runs out of strategies for a unit, the result
\* recorded for the unit is the result of the last psql call made for it.
ExhaustedLadderRecordsLastAttempt ==
    LET units == AttemptUnits
        results == ResultsSoFar
    IN  \A k \in 1..Len(results) :
           Exhausted(results[k]) =>
              procs[LastAttempt(units, results[k].file)].end
                 = ReturnedRes(results[k].res)

\* the last psql call for a unit, with the fetched bundle, raised, and the
\* result recorded for the unit is the one of its first call
FirstResultRecordedAfterLaterAttempt ==
    LET units == AttemptUnits
        results == ResultsSoFar
    IN  \E k \in 1..Len(results) :
           /\ Exhausted(results[k])
           /\ results[k].res.by = "s1"
           /\ LET last == procs[LastAttempt(units, results[k].file)]
              IN  LadderRank(last) = 1 /\ last.end.how = "raised"

\* C17: the temporary CA file exists only between its creation and the end
\* of Strategy 2: whenever the ladder has returned or moved on to Strategy 3
\* (after a psql success, a certificate failure, another failure, a failed
\* download, a timeout) the file is gone.
TempFileGoneAfterStrategy2 ==
    sync.tmp => sync.pc \in {"s2dl", "s2run"}

\* Strategy 3 is reached after the psql call with the fetched bundle timed
\* out, and the file is gone
TempFileGoneAfterTimeout ==
    /\ sync.pc = "s3"
    /\ ~sync.tmp
    /\ procs # <<>>
    /\ procs[Len(procs)].end = RaisedIn("Timeout")
    /\ procs[Len(procs)].env["PGSSLROOTCERT"] = CA_TEMP_FILE

\* the request was answered with an event stream
Streamed == req # NoRequest /\ "events" \in DOMAIN resp.body

\* how the child of a pull-code/stream, run-setup or git-pull/stream request
\* ended
ChildRun == procs[Len(procs)].end

RelayedChild ==
    /\ Streamed
    /\ req.endpoint \in {"pull-code/stream", "git-pull/stream"}
    /\ ChildRun.how = "exit"

LineEvents(lines, mark) ==
    LET kept == SelectSeq(lines, LAMBDA l : l # <<>>)
    IN  [i \in 1..Len(kept) |->
            Data(IF Len(kept[i]) <= MAX_LINE THEN kept[i]
                 ELSE SubSeq(kept[i], 1, MAX_LINE) \o mark)]

DoneOf(code) ==
    [event |-> "done", text |-> <<>>, ok |-> code = 0,
     code |-> IF code = 0 THEN NoCode ELSE code]

StreamEndsWithDone ==
    Streamed =>
        /\ resp.body.events # <<>>
        /\ resp.body.events[Len(resp.body.events)].event = "done"

\* a restart-server stream that ends with the error event of a timeout and
\* holds no done event
RestartTimedOutWithoutDone ==
    /\ Streamed
    /\ req.endpoint = "restart-server"
    /\ resp.body.events[Len(resp.body.events)]
          = ErrorEvent(<<"Operation timed out">>)
    /\ \A k \in 1..Len(resp.body.events) : resp.body.events[k].event # "done"

\* C20: when spawning the process of a streaming request fails, the error
\* event is the last event of the stream: no data event and no other event
\* follows it, no done event is sent (nothing was waited for) and no other
\* process is spawned; on pull-code/stream the stream is open, error.
SpawnFailureEndsStream ==
    (Streamed /\ \E i \in 1..Len(procs) : procs[i].end = SpawnFailed) =>
        LET events == resp.body.events
        IN  /\ procs[Len(procs)].end = SpawnFailed
            /\ \A i \in 1..(Len(procs) - 1) : procs[i].end # SpawnFailed
            /\ events[Len(events)].event = "error"
            /\ \A k \in 1..(Len(events) - 1) :
                  events[k].event \notin {"error", "done"}
            /\ req.endpoint = "pull-code/stream" =>
                  events = <<OpenEvent, ErrorEvent(<<"OSError">>)>>

\* pull-code/stream with a branch: Popen raised, the stream is open, error
RefreshSpawnFailed ==
    /\ Streamed
    /\ req.endpoint = "pull-code/stream"
    /\ strip(req.arg) # <<>>
    /\ procs[Len(procs)].end = SpawnFailed
    /\ resp.body.events = <<OpenEvent, ErrorEvent(<<"OSError">>)>>


\* ---------------------------------------------------------------------------
\* Maintenance mode: the persisted record
\* ---------------------------------------------------------------------------

\* min(max(d, 60000), 1800000), case by case
ClampedDuration(d) ==
    IF d < 60000 THEN 60000 ELSE IF d > 1800000 THEN 1800000 ELSE d

\* a call of POST /admin/maintenance-mode/enable answers 200 in this step
EnableSucceeds ==
    /\ req = NoRequest
    /\ req'.endpoint = "maintenance-mode/enable"
    /\ resp'.status = 200

\* C21: an enable call that reports success leaves a record that json.load
\* reads back with active = true, the payload's reason, enabledAt = the first
\* clock read of the call, and expiresAt = the second clock read plus
\* min(max(durationMs, 60000), 1800000); expiresAt - enabledAt is the clamped
\* duration plus the time between the two clock reads
EnablePersistsClampedRecord ==
    [][EnableSucceeds =>
          /\ maint'.exists
          /\ json_valid(maint'.text)
          /\ LET data == json_load(maint'.text)
             IN  /\ data.active
                 /\ data.reason = req'.arg
                 /\ data.enabledAt = now
                 /\ data.expiresAt = now' + ClampedDuration(req'.num)
                 /\ data.expiresAt - data.enabledAt
                        = ClampedDuration(req'.num) + (now' - now)
                 /\ resp'.body.expiresAt = data.expiresAt]_vars

\* enable with durationMs = 5000 has written a record that lasts one minute
ShortDurationRaisedToMinute ==
    /\ req.endpoint = "maintenance-mode/enable"
    /\ req.num = 5000
    /\ resp.status = 200
    /\ maint.exists
    /\ json_valid(maint.text)
    /\ json_load(maint.text).expiresAt - json_load(maint.text).enabledAt = 60000


\* a call of GET /admin/maintenance-mode answers in this step
StatusAnswers ==
    /\ req = NoRequest
    /\ req'.endpoint = "maintenance-mode"
    /\ resp'.status = 200

\* a call of POST /admin/maintenance-mode/disable answers 200 in this step
DisableSucceeds ==
    /\ req = NoRequest
    /\ req'.endpoint = "maintenance-mode/disable"
    /\ resp'.status = 200

\* the file holds a complete record whose expiresAt the clock has not passed
RecordInForce ==
    /\ maint.exists
    /\ json_valid(maint.text)
    /\ now <= json_load(maint.text).expiresAt

\* C22: with one call at a time, the file holds nothing or the complete
\* record of the most recent successful enable since the last successful
\* disable (only a successful enable writes it, only a successful disable or
\* a read past its expiresAt removes it), and status reports active exactly
\* when that record is there and the clock has not passed its expiresAt, with
\* remainingMs > 0 as long as the second clock read is before expiresAt
StatusFollowsLastEnableOrDisable ==
    [][/\ maint.exists => json_valid(maint.text)
       /\ StatusAnswers =>
             /\ resp'.body.ok
             /\ resp'.body.active <=> RecordInForce
             /\ (resp'.body.active /\ now' < json_load(maint.text).expiresAt)
                    => resp'.body.remainingMs
                           = json_load(maint.text).expiresAt - now'
             /\ ~resp'.body.active => ~maint'.exists
       /\ EnableSucceeds =>
             maint' = FileWith(json_dump(Record(now, resp'.body.expiresAt,
                                                req'.arg)))
       /\ DisableSucceeds => maint' = NoFile
       /\ (~EnableSucceeds /\ ~DisableSucceeds) =>
             \/ maint' = maint
             \/ maint' = NoFile /\ ~RecordInForce]_vars

\* status answers active with time remaining while the one-minute record of
\* an enable with a short duration is in the file
StatusActiveAfterShortEnable ==
    /\ req.endpoint = "maintenance-mode"
    /\ resp.status = 200
    /\ resp.body.active
    /\ resp.body.remainingMs > 0
    /\ maint.exists
    /\ json_load(maint.text).expiresAt - json_load(maint.text).enabledAt = 60000

\* a call of POST /admin/maintenance-mode/disable whose unlink does not raise
\* is answered in this step
DisableReturns ==
    /\ req = NoRequest
    /\ req'.endpoint = "maintenance-mode/disable"
    /\ auth' = "Allow"
    /\ resp'.status # 500

gateway_status_codes == {"502", "503", "504"}

\* the text carries a gateway status code or phrase, or a connection
\* reset/refused/timeout phrase
ExpectedDuringRestart(msg) ==
    /\ msg # NoError
    /\ \E term \in gateway_status_codes \cup gateway_phrases
                       \cup connection_terms : Mentions(msg, term)

\* C24: the filter suppresses an error only if maintenance is active when it
\* decides and the text of the error carries a gateway status code or
\* phrase or a connection reset/refused/timeout phrase
OnlyExpectedErrorsSuppressed ==
    sentry.running =>
        /\ sentry.suppressed => sentry.active /\ ExpectedDuringRestart(sentry.msg)
        /\ ~sentry.active => ~sentry.suppressed
        /\ (sentry.active /\ ~ExpectedDuringRestart(sentry.msg))
               => ~sentry.suppressed

\* while active the filter suppressed an error whose text carries 400 and
\* none of the gateway or connection signatures
BadRequestTextSuppressed ==
    /\ sentry.running
    /\ sentry.active
    /\ sentry.suppressed
    /\ ~sentry.sent
    /\ Mentions(sentry.msg, "400")
    /\ ~ExpectedDuringRestart(sentry.msg)


\* ---------------------------------------------------------------------------
\* Maintenance mode: calls running side by side
\* ---------------------------------------------------------------------------

AllCallsDone ==
    calls # NoCalls /\ \A i \in 1..Len(calls) : calls[i].pc = "done"

\* the calls that wrote the file or removed it
Writers == {i \in 1..Len(calls) : calls[i].wrote}

\* the state call i alone produces
StateOf(i) ==
    IF calls[i].op = "enable" THEN FileWith(json_dump(calls[i].data))
    ELSE NoFile

\* C25: once every call has answered, the file is what the call that wrote
\* or unlinked last has produced: no file after a disable, the complete
\* record of that call after an enable
LastWriterWins ==
    (AllCallsDone /\ Writers # {}) =>
        \E i \in Writers :
            /\ \A j \in Writers : calls[j].done <= calls[i].done
            /\ maint = StateOf(i)

\* every call has answered and the file holds the record of one enable
\* followed by the end of the longer record of the other, which json.load
\* refuses
MixedRecordLeft ==
    /\ AllCallsDone
    /\ maint.exists
    /\ ~json_valid(maint.text)
    /\ \E i \in Writers :
          /\ calls[i].op = "enable"
          /\ Len(maint.text) > Len(json_dump(calls[i].data))
          /\ SubSeq(maint.text, 1, Len(json_dump(calls[i].data)))
                 = json_dump(calls[i].data)


\* ---------------------------------------------------------------------------
\* Buffered commands
\* ---------------------------------------------------------------------------

BufferedEndpoints ==
    {"deploy-edge-functions", "regenerate-sitemap", "git-pull", "pull-code",
     "restart-server"}

\* the commands of the answered request: every process but the git call of
\* _get_repo_root
Commands ==
    {i \in 1..Len(procs) :
        procs[i].argv[Len(procs[i].argv)] # <<"--show-toplevel">>}

BufferedAnswered ==
    /\ req.endpoint \in BufferedEndpoints
    /\ auth = "Allow"
    /\ resp # NoResponse

\* the answer says ok: the JSON body, or the done event of the stream
ReportsOk ==
    IF Streamed
    THEN \E k \in 1..Len(resp.body.events) :
            resp.body.events[k].event = "done" /\ resp.body.events[k].ok
    ELSE resp.body.ok

\* the answer is a timeout error: 504 with ok false, or the error event
ReportsTimeout ==
    IF Streamed
    THEN resp.body.events[Len(resp.body.events)]
             = ErrorEvent(<<"Operation timed out">>)
    ELSE resp.status = 504 /\ ~resp.body.ok

\* C26: on deploy-edge-functions, regenerate-sitemap, git-pull, pull-code
\* and restart-server, a command whose wait ran out of time was killed and
\* the answer is a timeout error, a command that exited non-zero makes the
\* answer ok = false, and the answer is ok = true only if every command
\* exited with code 0
BufferedResultsFollowExit ==
    BufferedAnswered =>
        \A i \in Commands :
            LET end == procs[i].end
            IN  /\ end.how = "timeout" => end.killed /\ ReportsTimeout
                /\ (end.how = "exit" /\ end.code # 0) => ~ReportsOk
                /\ ReportsOk => end.how = "exit" /\ end.code = 0

\* restart-server answered done with ok = true although one of its
\* systemctl commands exited with code 1
RestartOkAfterFailedCommand ==
    /\ BufferedAnswered
    /\ req.endpoint = "restart-server"
    /\ ReportsOk
    /\ \E i \in Commands : procs[i].end = Exited(<<>>, 1, FALSE)


\* ---------------------------------------------------------------------------
\* The sudo password
\* ---------------------------------------------------------------------------

\* run-setup or restart-server was let through with the password req.arg
PasswordGiven ==
    /\ req.endpoint \in {"run-setup", "restart-server"}
    /\ auth = "Allow"
    /\ req.arg # <<>>

\* C27: in run-setup and restart-server the password is in no argument and
\* in no environment value of any process spawned for the request; each sudo
\* command gets it, followed by a newline, on its stdin and nothing else
\* gets any input
PasswordOnlyOnStdin ==
    PasswordGiven =>
        \A i \in 1..Len(procs) :
            /\ \A k \in 1..Len(procs[i].argv) :
                  ~Contains(procs[i].argv[k], req.arg)
            /\ \A name \in DOMAIN procs[i].env :
                  ~Contains(procs[i].env[name], req.arg)
            /\ procs[i].input = IF procs[i].argv[1] = <<"sudo">>
                                THEN req.arg \o <<"LF">> ELSE NoInput

\* restart-server ran its three sudo commands, each with the password on
\* its stdin
PasswordWrittenToSudo ==
    /\ PasswordGiven
    /\ req.endpoint = "restart-server"
    /\ Len(procs) = 3
    /\ \A i \in 1..3 : procs[i].input = req.arg \o <<"LF">>


\* the line has "[sudo]" or "password" in it, in upper or lower case
IsPromptEcho(line) ==
    \E i \in 1..Len(line) :
        \/ LowerChar(line[i]) = "[sudo]"
        \/ /\ LowerChar(line[i]) = "p"
           /\ i + 7 <= Len(line)
           /\ [k \in 1..8 |-> LowerChar(line[i + k - 1])]
                  = <<"p", "a", "s", "s", "w", "o", "r", "d">>

\* the texts of the data events of the answer
RelayedTexts ==
    LET data == SelectSeq(resp.body.events, LAMBDA e : e.event = "message")
    IN  [k \in 1..Len(data) |-> data[k].text]

\* C28: on run-setup, for a child that wrote its lines and exited, no data
\* event carries "[sudo]" or "password" in any case, and the data events are,
\* in order, the lines that are not empty and carry neither, each whole or,
\* if longer than 4000 characters, cut to 4000 and marked
SetupRelaysAllButPromptEchoes ==
    (Streamed /\ req.endpoint = "run-setup" /\ ChildRun.how = "exit") =>
        LET kept == SelectSeq(ChildRun.lines,
                              LAMBDA l : l # <<>> /\ ~IsPromptEcho(l))
            cut == [k \in 1..Len(kept) |->
                       IF Len(kept[k]) <= MAX_LINE THEN kept[k]
                       ELSE SubSeq(kept[k], 1, MAX_LINE) \o ELLIPSIS]
        IN  /\ RelayedTexts = cut
            /\ \A k \in 1..Len(RelayedTexts) : ~IsPromptEcho(RelayedTexts[k])

\* run-setup dropped the line "Password:" of the child and relayed the line
\* after it
PromptDroppedNextLineRelayed ==
    /\ Streamed
    /\ req.endpoint = "run-setup"
    /\ ChildRun.how = "exit"
    /\ ChildRun.lines = << <<"P", "a", "s", "s", "w", "o", "r", "d", ":">>,
                           <<"o", "k">> >>
    /\ RelayedTexts = << <<"o", "k">> >>


\* ---------------------------------------------------------------------------
\* The JSON envelope
\* ---------------------------------------------------------------------------

\* the request was answered with a JSON body
JsonAnswered ==
    /\ req # NoRequest
    /\ resp # NoResponse
    /\ resp # Pending
    /\ ~Streamed

\* C29: every JSON answer of an endpoint has the boolean field ok, and ok is
\* false in every answer whose status is an error status
EveryJsonAnswerHasOk ==
    JsonAnswered =>
        /\ "ok" \in DOMAIN resp.body
        /\ resp.body.ok \in BOOLEAN
        /\ resp.status >= 400 => ~resp.body.ok

\* GET /admin/branches was let through and answered 200 with a body that has
\* no field ok
BranchesListedWithoutOk ==
    /\ req.endpoint = "branches"
    /\ auth = "Allow"
    /\ resp.status = 200
    /\ "ok" \notin DOMAIN resp.body


\* C30: a psql call of a unit that ran into the timeout, as the first call
\* or in the fallback ladder, is the last call made for the unit, and the
\* entry recorded for the unit is the timeout error
TimeoutEndsTheUnit ==
    LET units == AttemptUnits
        results == ResultsSoFar
    IN  \A i \in 1..Len(units) :
           (units[i] # <<>> /\ procs[i].end = RaisedIn("Timeout")) =>
              /\ \A l \in (i + 1)..Len(units) : units[l] # units[i]
              /\ \A k \in 1..Len(results) :
                    results[k].file = units[i] =>
                       /\ results[k].status = "error"
                       /\ results[k].error = "Timeout"

\* a unit whose psql call with the fetched bundle timed out is recorded with
\* the result of a psql call that returned
TimeoutOfFallbackNotRecorded ==
    LET units == AttemptUnits
        results == ResultsSoFar
    IN  \E i \in 1..Len(units), k \in 1..Len(results) :
           /\ units[i] # <<>>
           /\ results[k].file = units[i]
           /\ procs[i].end = RaisedIn("Timeout")
           /\ procs[i].env["PGSSLROOTCERT"] = CA_TEMP_FILE
           /\ results[k].error # "Timeout"
           /\ results[k].res # NoRes


\* ---------------------------------------------------------------------------
\* PII scrubbing
\* ---------------------------------------------------------------------------

REDACTED == <<"R", "E", "D", "A", "C", "T", "E", "D">>

\* the text holds a password key followed by the value v in one of the
\* three forms
HoldsPassword(text, v) ==
    \E key \in PasswordKeys :
        \/ Contains(text, KeyEqualsValue(key, v))
        \/ Contains(text, KeyColonValue(key, v))
        \/ Contains(text, JsonKeyValue(key, v))

\* C31: for every text in which a password key is followed by a value as
\* key=value, key:value or "key": "value", the scrubbed text holds REDACTED
\* and does not hold the value
PasswordValuesScrubbed ==
    (sentry.running /\ sentry.sent) =>
        \A v \in SecretValues :
            HoldsPassword(sentry.value, v) =>
                /\ Contains(sentry.scrubbed, REDACTED)
                /\ ~Contains(sentry.scrubbed, v)

\* the event is sent with {"password": "secret"} in it as it came
JsonPasswordSentAsIs ==
    /\ sentry.running
    /\ sentry.sent
    /\ sentry.value
          = <<"{">> \o JsonKeyValue(PASSWORD_WORD, <<"s", "e", "c", "r", "e", "t">>)
              \o <<"}">>
    /\ sentry.scrubbed = sentry.value


\* ---------------------------------------------------------------------------
\* Branch names
\* ---------------------------------------------------------------------------

\* the characters of [A-Za-z0-9_./-]
BranchNameChars == AlnumChars \cup {"_", ".", "/", "-"}

\* C32: _validate_branch_name(name) is True exactly when name is not empty,
\* does not start with "-", holds neither ".." nor "//" and is made of the
\* characters of [A-Za-z0-9_./-] alone
ValidExactlyWhenWellFormed ==
    ret.fn = "_validate_branch_name" =>
        (ret.value <=>
            /\ ret.arg # <<>>
            /\ ret.arg[1] # "-"
            /\ \A i \in 1..(Len(ret.arg) - 1) :
                  /\ ~(ret.arg[i] = "." /\ ret.arg[i + 1] = ".")
                  /\ ~(ret.arg[i] = "/" /\ ret.arg[i + 1] = "/")
            /\ \A i \in 1..Len(ret.arg) : ret.arg[i] \in BranchNameChars)

\* a name that ends in a newline was found valid
NameWithNewlineValid ==
    /\ ret.fn = "_validate_branch_name"
    /\ ret.arg = <<"m", "LF">>
    /\ ret.value


\* the processes of the answered pull-code request that run the refresh
\* script
RefreshProcs ==
    {i \in 1..Len(procs) : procs[i].argv[1] = refresh_script_path}

RECURSIVE NumberedBetween(_, _)
NumberedBetween(lo, hi) ==
    IF lo > hi THEN <<>>
    ELSE IF lo = hi THEN Digits(lo) \o <<"LF">>
         ELSE LET mid == (lo + hi) \div 2
              IN  NumberedBetween(lo, mid) \o NumberedBetween(mid + 1, hi)

NumberedLines(n) == NumberedBetween(1, n)

\* line counts around each bound, a last line without line end, "\r\n"
TailOutputs ==
    { Captured(NumberedLines(a), NumberedLines(b)) :
          a \in {0, 1, SITEMAP_STDOUT_LINES, SITEMAP_STDOUT_LINES + 1,
                 DEPLOY_STDOUT_LINES, DEPLOY_STDOUT_LINES + 1},
          b \in {0, SITEMAP_STDERR_LINES, SITEMAP_STDERR_LINES + 1,
                 DEPLOY_STDERR_LINES + 1} }
    \cup { Captured(<<"a", "LF", "LF", "b">>, <<"e", "CR", "LF", "f", "CR">>) }

TailNext ==
    \/ admin_deploy_edge_functions(TailOutputs)
    \/ regenerate_sitemap(TailOutputs)
    \/ git_pull(TailOutputs)
    \/ teardown

\* the three buffered routes that answer with captured output
TailSpec == Init /\ [][TailNext]_vars

\* the command of the answered request exited and its output is answered
OutputAnswered ==
    /\ req.endpoint \in {"deploy-edge-functions", "regenerate-sitemap", "git-pull"}
    /\ auth = "Allow"
    /\ resp # NoResponse
    /\ Commands # {}
    /\ \A i \in Commands : procs[i].end.how = "exit"

\* what the command of the answered request wrote
Written == procs[CHOOSE i \in Commands : TRUE].end

\* field holds at most n lines, and they are the last min(n, total) lines
\* of captured in their order
LastLinesOf(field, captured, n) ==
    LET all == splitlines(captured)
        k == Min(n, Len(all))
    IN  /\ Cardinality({i \in 1..Len(field) : field[i] = "LF"}) < n
        /\ field = join([i \in 1..k |-> all[Len(all) - k + i]])

\* C34: the answer of deploy-edge-functions holds the last 200 lines of the
\* command's stdout and the last 100 of its stderr, the answer of
\* regenerate-sitemap the last 100 and the last 50, and the answer of
\* git-pull holds no more lines of a stream than the largest of these bounds
EveryAnswerHoldsTails ==
    OutputAnswered =>
        CASE req.endpoint = "deploy-edge-functions" ->
                /\ LastLinesOf(resp.body.stdout, Written.stdout, DEPLOY_STDOUT_LINES)
                /\ LastLinesOf(resp.body.stderr, Written.stderr, DEPLOY_STDERR_LINES)
          [] req.endpoint = "regenerate-sitemap" ->
                /\ LastLinesOf(resp.body.stdout, Written.stdout, SITEMAP_STDOUT_LINES)
                /\ LastLinesOf(resp.body.stderr, Written.stderr, SITEMAP_STDERR_LINES)
          [] req.endpoint = "git-pull" ->
                /\ Len(splitlines(resp.body.output)) <= DEPLOY_STDOUT_LINES
                /\ "stderr" \in DOMAIN resp.body =>
                      Len(splitlines(resp.body.stderr)) <= DEPLOY_STDOUT_LINES

\* the answers of the two script routes hold the tails
ScriptAnswersHoldTails ==
    (OutputAnswered /\ req.endpoint # "git-pull") => EveryAnswerHoldsTails

\* git pull wrote 201 lines and the answer holds all of them
GitPullAnswersWholeOutput ==
    /\ OutputAnswered
    /\ req.endpoint = "git-pull"
    /\ Len(splitlines(Written.stdout)) = DEPLOY_STDOUT_LINES + 1
    /\ resp.body.output = Written.stdout


\* ---------------------------------------------------------------------------
\* Sources of the database URL
\* ---------------------------------------------------------------------------

PG_HOST == <<"pg.example.com">>

\* what each variable holds when it is set
UrlEnvValues ==
    [DATABASE_URL |-> pg_url(<<"u">>, DATABASE_PASSWORD, DB_HOST),
     PGHOST |-> PG_HOST,
     PGUSER |-> <<"p", "@">>,
     PGPASSWORD |-> <<"w">>,
     SUPABASE_URL |-> <<"https://", "r", ".supabase.co">>,
     SUPABASE_DB_PASSWORD |-> DATABASE_PASSWORD]

\* every choice of the variables that are set, and three more environments:
\* the last of the direct names, a host set to the empty string, the second
\* names of the pieces
UrlEnvs ==
    { [n \in S |-> UrlEnvValues[n]] : S \in SUBSET DOMAIN UrlEnvValues }
    \cup { [SUPABASE_DB_URL |-> <<"postgresql://", "u", "@", "127.0.0.1">>,
            PGHOST |-> PG_HOST, PGUSER |-> <<"p">>],
           [PGHOST |-> <<>>, PGUSER |-> <<"p">>,
            SUPABASE_URL |-> <<"https://", "r", ".supabase.co">>,
            PGPASSWORD |-> <<"w">>],
           [POSTGRES_HOST |-> PG_HOST, POSTGRES_USER |-> <<"p">>,
            VITE_SUPABASE_URL |-> <<"https://", "r", ".supabase.co">>,
            SUPABASE_DB_PASSWORD |-> <<"w">>] }

UrlInit ==
    \E env \in UrlEnvs :
        Loaded(Unset, <<"t">>, DEFAULT_ALLOWED_SERVICES_RAW, env,
               Files({ca_paths[2][1], ca_paths[4][1]}, TRUE,
                     {<<"1", ".sql">>}))

UrlNext ==
    \/ call_build_database_url
    \/ helper_returned
    \/ sync_schema
    \/ run_psql_strategy1
    \/ create_ca_temp_file
    \/ fetch_ca_bundle
    \/ run_psql_strategy2
    \/ run_psql_strategy3
    \/ sync_summary
    \/ teardown

\* _build_database_url and schema sync under every environment of UrlEnvs
UrlSpec == UrlInit /\ [][UrlNext]_vars

\* the first variable of names that is set and not empty
RECURSIVE FirstSet(_)
FirstSet(names) ==
    IF names = <<>> THEN <<>>
    ELSE IF Env(Head(names)) # <<>> THEN Env(Head(names))
         ELSE FirstSet(Tail(names))

\* source 1: one of the direct URLs
DirectUrl ==
    FirstSet(<<"DATABASE_URL", "POSTGRES_URL", "POSTGRES_PRISMA_URL",
               "SUPABASE_DB_URL">>)
\* source 2: a host and a user (password, port and database are optional)
PiecesHost == FirstSet(<<"PGHOST", "POSTGRES_HOST">>)
PiecesUser == FirstSet(<<"PGUSER", "POSTGRES_USER">>)
\* source 3: a project URL and a password
ProjectUrl == FirstSet(<<"SUPABASE_URL", "VITE_SUPABASE_URL">>)
ProjectPassword ==
    FirstSet(<<"SUPABASE_DB_PASSWORD", "PGPASSWORD", "POSTGRES_PASSWORD">>)

DirectSpecified == DirectUrl # <<>>
PiecesSpecified == PiecesHost # <<>> /\ PiecesUser # <<>>
ProjectSpecified == ProjectUrl # <<>> /\ ProjectPassword # <<>>

\* url names user (percent-encoded) at host
UrlOf(url, user, host) ==
    /\ Len(url) > Len(quote(user)) + 1
    /\ url[1] = "postgresql://"
    /\ SubSeq(url, 2, Len(quote(user)) + 1) = quote(user)
    /\ \E i \in 1..(Len(url) - Len(host)) :
          url[i] = "@" /\ SubSeq(url, i + 1, i + Len(host)) = host

SyncAnswered ==
    req.endpoint = "sync-schema" /\ auth = "Allow" /\ resp # NoResponse

PsqlSpawned ==
    \E i \in 1..Len(procs) : procs[i].argv[1] = <<"psql">>

SyncRefusedUnconfigured ==
    /\ SyncAnswered
    /\ ~DirectSpecified /\ ~PiecesSpecified /\ ~ProjectSpecified
    /\ resp.body.error = "Database not configured"


-----------------------------------------------------------------------------
(* Pull-code requests handled side by side (threads or workers of the      *)
(* server): app.py:569-657.  Each request is at a position of its handler; *)
(* the processes they spawn run until they exit.                            *)

\* the requests handled at once
MaxRequests == 3

\* the child that was spawned and has not exited
Running == [how |-> "running"]

\* a request for /admin/pull-code (stream false) or /admin/pull-code/stream
\* before its handler runs; popen tells how its Popen call ended, child is
\* the position in procs of the process it spawned, 0 while it has spawned
\* none
RefreshCall(cred, raw, stream) ==
    [op |-> "pull-code", pc |-> "start", cred |-> cred, raw |-> raw,
     stream |-> stream, popen |-> "", child |-> 0, status |-> 0]

\* an allowed request joins the refresh process that is running, if one is,
\* and spawns one only if none is
refresh_popen_deduplicated(i) ==
    /\ calls[i].op = "pull-code" /\ calls[i].pc = "start"
    /\ Verify(calls[i].cred) = "Allow"
    /\ IF \E j \in 1..Len(procs) : procs[j].end = Running
       THEN /\ procs' = procs
            /\ calls' = [calls EXCEPT
                            ![i].pc = "done", ![i].popen = "ok",
                            ![i].child = CHOOSE j \in 1..Len(procs) :
                                             procs[j].end = Running,
                            ![i].status = 200]
       ELSE /\ procs' = Append(procs,
                               Ended(refresh_proc(strip(calls[i].raw)), Running))
            /\ calls' = [calls EXCEPT
                            ![i].pc = "done", ![i].popen = "ok",
                            ![i].child = Len(procs'), ![i].status = 200]
    /\ UNCHANGED <<config, ret, sentry, maint, now, req, auth, resp, sync>>

\* the handler from _verify_request to Popen: the request is refused, its
\* branch is rejected, the script is missing, Popen raises, or the child is
\* spawned; /admin/pull-code answers at once, the stream goes on to read
\* the child's output
refresh_popen(i) ==
    /\ calls[i].op = "pull-code" /\ calls[i].pc = "start"
    /\ LET c == calls[i]
           branch == strip(c.raw)
           finish(status, popen, spawned) ==
               /\ calls' = [calls EXCEPT ![i].pc = "done", ![i].popen = popen,
                                         ![i].status = status]
               /\ procs' = procs \o spawned
       IN  IF Verify(c.cred) # "Allow"
           THEN finish(Refused(Verify(c.cred)).status, "", <<>>)
           ELSE IF branch # <<>> /\ ~validate_branch_name(branch)
           THEN finish(400, "", <<>>)
           ELSE IF ~isfile(refresh_script_path)
           THEN finish(500, "", get_repo_root_procs)
           ELSE \/ finish(IF c.stream THEN 200 ELSE 500, "oserror",
                          Append(get_repo_root_procs,
                                 Ended(refresh_proc(branch), SpawnFailed)))
                \/ /\ procs' = procs \o get_repo_root_procs
                                  \o <<Ended(refresh_proc(branch), Running)>>
                   /\ calls' = [calls EXCEPT
                                   ![i].pc = IF c.stream THEN "reading" ELSE "done",
                                   ![i].popen = "ok",
                                   ![i].child = Len(procs'),
                                   ![i].status = 200]
    /\ UNCHANGED <<config, ret, sentry, maint, now, req, auth, resp, sync>>

\* a spawned refresh script exits
child_exit(j) ==
    /\ procs[j].end = Running
    /\ procs' = [procs EXCEPT ![j] = Ended(procs[j], Exited(<<>>, 0, FALSE))]
    /\ UNCHANGED <<config, ret, calls, sentry, maint, now, req, auth, resp, sync>>

\* the stream reads to the end of its child's output and p.wait() returns,
\* app.py:603-617
refresh_wait(i) ==
    /\ calls[i].op = "pull-code" /\ calls[i].pc = "reading"
    /\ procs[calls[i].child].end # Running
    /\ calls' = [calls EXCEPT ![i].pc = "done"]
    /\ UNCHANGED <<config, ret, sentry, maint, now, req, auth, resp, procs, sync>>

RefreshInit ==
    /\ APP_SECRET = <<"a", "b">>
    /\ ADMIN_STATIC_TOKEN = <<"t">>
    /\ ALLOWED_SERVICES_RAW = DEFAULT_ALLOWED_SERVICES_RAW
    /\ ALLOWED_SERVICES = parse_allowed_services(DEFAULT_ALLOWED_SERVICES_RAW)
    /\ DEFAULT_SERVICE = <<"plant-swipe-node">>
    /\ environ = EnvNone
    /\ fs \in {Files(AllFiles, FALSE, {}), Files({}, FALSE, {})}
    /\ maint = NoFile
    /\ \E raw \in { <<>>, <<"m">>, <<"-">> } :
          calls \in [1..MaxRequests ->
                        { RefreshCall(Cred(<<>>, token, SampleBody), raw, stream) :
                              token \in { <<"t">>, <<"x">> },
                              stream \in BOOLEAN }]
    /\ sentry = NoDecision
    /\ ret = NoReturn
    /\ now = 0
    /\ req = NoRequest
    /\ auth = "None"
    /\ resp = NoResponse
    /\ procs = <<>>
    /\ sync = SyncIdle

RefreshNext ==
    \/ \E i \in 1..Len(calls) : refresh_popen(i)
    \/ \E i \in 1..Len(calls) : refresh_wait(i)
    \/ \E j \in 1..Len(procs) : child_exit(j)

\* MaxRequests requests for the same branch, in every interleaving
RefreshSpec == RefreshInit /\ [][RefreshNext]_vars

\* the requests whose handler spawned the refresh script
Spawners == {i \in 1..Len(calls) : calls[i].child # 0}

\* the refresh scripts that were spawned
RefreshChildren ==
    {j \in 1..Len(procs) :
        procs[j].argv = <<refresh_script_path>> /\ procs[j].end # SpawnFailed}

\* the handler of request i is past Popen and Popen did not raise
PopenReturned(i) ==
    /\ calls[i].pc # "start"
    /\ Verify(calls[i].cred) = "Allow"
    /\ ~BadBranch(strip(calls[i].raw))
    /\ isfile(refresh_script_path)
    /\ calls[i].popen # "oserror"

\* C36: of the pull-code requests handled at once, each allowed one whose
\* Popen returned has spawned a refresh process of its own, whatever the
\* others did and whether their processes still run: k such requests, k
\* processes; a request that was refused has spawned none
EachRequestSpawnsItsOwnProcess ==
    /\ \A i \in 1..Len(calls) :
          /\ PopenReturned(i) => i \in Spawners
          /\ Verify(calls[i].cred) # "Allow" => i \notin Spawners
    /\ \A i \in Spawners :
          /\ calls[i].child \in RefreshChildren
          /\ procs[calls[i].child].env = refresh_env(strip(calls[i].raw))
    /\ \A i \in Spawners, k \in Spawners :
          i # k => calls[i].child # calls[k].child
    /\ Cardinality(RefreshChildren) = Cardinality(Spawners)

\* every request was allowed and the processes of all of them run at once
AllChildrenRunAtOnce ==
    /\ Cardinality(Spawners) = MaxRequests
    /\ \A i \in Spawners : procs[calls[i].child].end = Running


\* ---------------------------------------------------------------------------
\* The gate without a secret
\* ---------------------------------------------------------------------------

\* ADMIN_BUTTON_SECRET was not set, or was set to the empty string, when the
\* module was loaded (no configuration of AuthInit sets it to "change-me")
SecretNotConfigured ==
    APP_SECRET \in {get_env_var(Unset, CHANGE_ME), get_env_var(<<>>, CHANGE_ME)}

\* C37: with ADMIN_BUTTON_SECRET unset or empty, no request that carries the
\* signature header is let through, whatever the signature
NoSecretNoSignedRequestAllowed ==
    (SecretNotConfigured /\ req.sig # <<>>) => auth # "Allow"

\* the secret is not set and the request whose signature was made with
\* "change-me" is let through; it carries no static token
SignedWithDefaultSecretAllowed ==
    /\ APP_SECRET = get_env_var(Unset, CHANGE_ME)
    /\ req.sig = hmac_hexdigest(CHANGE_ME, req.body)
    /\ req.token = <<>>
    /\ auth = "Allow"

\* the secret is set to the empty string and the request signed with the
\* empty key is let through
SignedWithEmptySecretAllowed ==
    /\ APP_SECRET = <<>>
    /\ req.sig = hmac_hexdigest(<<>>, req.body)
    /\ req.token = <<>>
    /\ auth = "Allow"


-----------------------------------------------------------------------------
(* Status calls running side by side with an enable call: the steps of      *)
(* _get_maintenance_mode, app.py:85-105, between which other calls run.    *)

\* a call of GET /admin/maintenance-mode before it looks at the file;
\* active is what _get_maintenance_mode returns, unlinked whether its
\* os.unlink removed the file
StatusCall ==
    [op |-> "status", pc |-> "start", active |-> FALSE, unlinked |-> FALSE,
     fd |-> "none", status |-> 0, done |-> 0]

\* app.py:90-91: os.path.exists
status_exists(i) ==
    /\ calls[i].op = "status" /\ calls[i].pc = "start"
    /\ calls' = IF maint.exists
                THEN [calls EXCEPT ![i].pc = "found"]
                ELSE [calls EXCEPT ![i].pc = "done", ![i].status = 200,
                                   ![i].done = Finished + 1]
    /\ UNCHANGED <<config, ret, sentry, maint, now, req, auth, resp, procs, sync>>

\* app.py:92-96 and 102-104: the file is opened and read and the clock is
\* compared with expiresAt; a file that is gone or does not parse (an
\* enable has opened it and not written yet) makes the call return inactive
status_load(i) ==
    /\ calls[i].op = "status" /\ calls[i].pc = "found"
    /\ calls' = IF expired(maint, now)
                THEN [calls EXCEPT ![i].pc = "expired"]
                ELSE [calls EXCEPT ![i].pc = "done", ![i].status = 200,
                                   ![i].active = maintenance_active(maint, now),
                                   ![i].done = Finished + 1]
    /\ UNCHANGED <<config, ret, sentry, maint, now, req, auth, resp, procs, sync>>

\* app.py:97-101: os.unlink(MAINTENANCE_MODE_FILE) removes the name, whatever
\* the file holds by now; an exception is passed over
status_unlink(i) ==
    /\ calls[i].op = "status" /\ calls[i].pc = "expired"
    /\ calls' = [j \in 1..Len(calls) |->
                    IF j = i
                    THEN [calls[j] EXCEPT !.pc = "done", !.status = 200,
                                          !.unlinked = maint.exists,
                                          !.done = Finished + 1]
                    ELSE IF maint.exists /\ calls[j].fd = "linked"
                    THEN [calls[j] EXCEPT !.fd = "orphan"]
                    ELSE calls[j]]
    /\ maint' = NoFile
    /\ UNCHANGED <<config, ret, sentry, now, req, auth, resp, procs, sync>>

\* two status calls and an enable call, the file holding a record that
\* expires at 60000 or no record, the clock moving on between their steps
CleanupInit ==
    /\ APP_SECRET = <<"a", "b">>
    /\ ADMIN_STATIC_TOKEN = <<"t">>
    /\ ALLOWED_SERVICES_RAW = DEFAULT_ALLOWED_SERVICES_RAW
    /\ ALLOWED_SERVICES = parse_allowed_services(DEFAULT_ALLOWED_SERVICES_RAW)
    /\ DEFAULT_SERVICE = <<"plant-swipe-node">>
    /\ environ = EnvNone
    /\ fs = Files({}, FALSE, {})
    /\ maint \in {NoFile, FileWith(json_dump(Record(0, 60000, <<"b">>)))}
    /\ \E d \in ConcDurations, r \in ReasonInputs :
          calls = << StatusCall, StatusCall, EnableCall(d, r) >>
    /\ sentry = NoDecision
    /\ ret = NoReturn
    /\ now = 0
    /\ req = NoRequest
    /\ auth = "None"
    /\ resp = NoResponse
    /\ procs = <<>>
    /\ sync = SyncIdle

CleanupNext ==
    \/ \E i \in 1..Len(calls) : status_exists(i)
    \/ \E i \in 1..Len(calls) : status_load(i)
    \/ \E i \in 1..Len(calls) : status_unlink(i)
    \/ \E i \in 1..Len(calls) : enable_open(i)
    \/ \E i \in 1..Len(calls) : enable_write(i)
    \/ Tick

CleanupSpec == CleanupInit /\ [][CleanupNext]_vars

\* the enable calls that have answered 200 and whose record has not expired
EnabledInForce ==
    {i \in 1..Len(calls) :
        /\ calls[i].op = "enable"
        /\ calls[i].pc = "done"
        /\ calls[i].status = 200
        /\ now <= calls[i].data.expiresAt}

\* C38: whatever the order of the steps of status calls and of an enable
\* call, once the enable has answered and until its record expires (no
\* disable is called) the file holds that record and a status call would
\* report the mode active
CleanupKeepsRecordInForce ==
    \A i \in EnabledInForce :
        /\ maint.exists
        /\ json_valid(maint.text)
        /\ json_load(maint.text) = calls[i].data
        /\ maintenance_active(maint, now)

\* the enable has answered 200, its record has not expired, and the unlink
\* of a status call that had read the expired record removed the file
CleanupRemovedFreshRecord ==
    /\ EnabledInForce # {}
    /\ ~maint.exists
    /\ \E j \in 1..Len(calls) : calls[j].op = "status" /\ calls[j].unlinked


\* ---------------------------------------------------------------------------
\* Service names with and without ".service"
\* ---------------------------------------------------------------------------

\* ADMIN_ALLOWED_SERVICES: the default, entries with the suffix and with
\* white space, only suffixed entries, no entry
AllowedServicesInputs ==
    { DEFAULT_ALLOWED_SERVICES_RAW,
      << <<"SP", "nginx">>, <<>>, <<"sshd", ".service">> >>,
      << <<"nginx", ".service">>, <<"admin-api", ".service", "SP">> >>,
      << <<>> >> }

ServiceInit ==
    \E raw \in AllowedServicesInputs :
        Loaded(Unset, <<"t">>, raw, EnvNone, Files({}, FALSE, {}))

ServiceNext ==
    \/ call_is_service_allowed(ServiceInputs)
    \/ helper_returned
    \/ restart_app
    \/ teardown

\* _is_service_allowed and the restart route under every list of entries
ServiceSpec == ServiceInit /\ [][ServiceNext]_vars

\* name without a ".service" at its end
WithoutSuffix(name) ==
    IF EndsWith(name, <<".service">>) THEN SubSeq(name, 1, Len(name) - 1)
    ELSE name

\* the entries of ADMIN_ALLOWED_SERVICES
ConfiguredEntries ==
    {strip(ALLOWED_SERVICES_RAW[i]) : i \in 1..Len(ALLOWED_SERVICES_RAW)}
        \ {<<>>}

\* C39: a service name is allowed exactly when it equals an entry of
\* ADMIN_ALLOWED_SERVICES once a ".service" at the end of each is removed
AllowedUpToSuffix ==
    ret.fn = "_is_service_allowed" =>
        (ret.value <=>
            \E e \in ConfiguredEntries :
                WithoutSuffix(e) = WithoutSuffix(ret.arg))

\* the entry is nginx and nginx.service is refused
SuffixedNameOfPlainEntryRefused ==
    /\ ret.fn = "_is_service_allowed"
    /\ <<"nginx">> \in ConfiguredEntries
    /\ ret.arg = <<"nginx", ".service">>
    /\ ~ret.value

\* what holds: a name without the suffix is allowed exactly when an entry
\* equals it up to the suffix, a name with the suffix exactly when it is an
\* entry as written
AllowedAsTheCodeTests ==
    ret.fn = "_is_service_allowed" =>
        (ret.value <=>
            IF EndsWith(ret.arg, <<".service">>)
            THEN ret.arg \in ConfiguredEntries
            ELSE \E e \in ConfiguredEntries : WithoutSuffix(e) = ret.arg)


\* ---------------------------------------------------------------------------
\* One result for each sync unit
\* ---------------------------------------------------------------------------

\* text holds "ERROR:" in any case
MentionsError(text) ==
    \E i \in 1..Len(text) : text[i] \in {"ERROR:", "Error:", "error:"}

\* the psql call that ended as end exited with code 0 and wrote no "ERROR:"
CleanExit(end) ==
    /\ end.how = "returned"
    /\ end.res.returncode = 0
    /\ ~MentionsError(end.res.out)
    /\ ~MentionsError(end.res.err)

\* C40: the results hold one entry for each unit the loop is through, in
\* the order of the units, all of them once the summary is answered; the
\* entry of a unit is a success exactly when the last psql call made for the
\* unit exited with code 0 and wrote "ERROR:" in no case to stdout or
\* stderr, and an error in every other case
OneResultForEachUnit ==
    LET units == AttemptUnits
        results == ResultsSoFar
        files == get_sql_files_in_order
    IN  /\ Len(results) <= Len(files)
        /\ SummaryAnswered => Len(results) = Len(files)
        /\ sync.pc # "idle" => Len(results) = sync.i - 1
        /\ \A k \in 1..Len(results) :
              /\ results[k].file = files[k]
              /\ results[k].status \in {"success", "error"}
              /\ results[k].status = "success"
                    <=> CleanExit(procs[LastAttempt(units, files[k])].end)

\* the summary holds three results: a unit whose psql call exited with code
\* 0 and wrote "error:" in lower case is an error, a unit whose last call
\* timed out is an error, a unit applied cleanly is a success
MixedResultsRecorded ==
    /\ SummaryAnswered
    /\ Len(resp.body.results) = 3
    /\ LET units == AttemptUnits
           last(k) == procs[LastAttempt(units, resp.body.results[k].file)].end
       IN  /\ last(1).how = "returned"
           /\ last(1).res.returncode = 0
           /\ Mentions(last(1).res.out, "error:")
           /\ resp.body.results[1].status = "error"
           /\ last(2) = RaisedIn("Timeout")
           /\ resp.body.results[2].status = "error"
           /\ CleanExit(last(3))
           /\ resp.body.results[3].status = "success"

=============================================================================
